---- MODULE Spec2Model ----
(***************************************************************************)
(* NEXUS news-article normaliser (src/src/services/dataNormalizer.js).     *)
(*                                                                         *)
(* JavaScript strings are modelled as sequences of one-character strings,  *)
(* so that splitting, lower-casing, slicing, base64 encoding and date      *)
(* parsing are computed character by character as the code computes them.  *)
(* A JavaScript value is a record [t, s]: t is its typeof ("undefined",    *)
(* "null", "string", "number") and s its characters (the decimal digits    *)
(* for a number, empty for undefined and null); an object is a record      *)
(* with t = "object" and its properties.                                   *)
(***************************************************************************)
EXTENDS Integers, Sequences, FiniteSets, TLC

(***************************************************************************)
(* Characters and strings                                                  *)
(***************************************************************************)
\* the printable ASCII characters 32..95 and 97..126 (the backquote, 96, is left out)
AsciiLow == <<" ","!","\"","#","$","%","&","'","(",")","*","+",",","-",".","/","0","1","2","3","4","5","6","7","8","9",":",";","<","=",">","?","@","A","B","C","D","E","F","G","H","I","J","K","L","M","N","O","P","Q","R","S","T","U","V","W","X","Y","Z","[","\\","]","^","_">>

AsciiHigh == <<"a","b","c","d","e","f","g","h","i","j","k","l","m","n","o","p","q","r","s","t","u","v","w","x","y","z","{","|","}","~">>

Upper == <<"A","B","C","D","E","F","G","H","I","J","K","L","M","N","O","P","Q","R","S","T","U","V","W","X","Y","Z">>

Lower == <<"a","b","c","d","e","f","g","h","i","j","k","l","m","n","o","p","q","r","s","t","u","v","w","x","y","z">>

Digits == <<"0","1","2","3","4","5","6","7","8","9">>

B64 == <<"A","B","C","D","E","F","G","H","I","J","K","L","M","N","O","P","Q","R","S","T","U","V","W","X","Y","Z","a","b","c","d","e","f","g","h","i","j","k","l","m","n","o","p","q","r","s","t","u","v","w","x","y","z","0","1","2","3","4","5","6","7","8","9","+","/">>

Range(s) == {s[i] : i \in 1..Len(s)}

IndexOf(c, s) == CHOOSE i \in 1..Len(s) : s[i] = c

\* the UTF-8 byte of a printable ASCII character (Buffer.from(string))
CharCode(c) ==
  IF c \in Range(AsciiLow) THEN 31 + IndexOf(c, AsciiLow) ELSE 96 + IndexOf(c, AsciiHigh)

IsDigit(c) == c \in Range(Digits)

DigitVal(c) == IndexOf(c, Digits) - 1

\* the regular-expression class \s
IsSpace(c) == c \in {" ", "\t", "\n"}

ToLowerChar(c) == IF c \in Range(Upper) THEN Lower[IndexOf(c, Upper)] ELSE c

\* String.prototype.toLowerCase
ToLowerCase(s) == [i \in 1..Len(s) |-> ToLowerChar(s[i])]

\* String.prototype.slice(0, n)
SliceTo(s, n) == SubSeq(s, 1, IF Len(s) < n THEN Len(s) ELSE n)

RECURSIVE SplitSpaceFrom(_, _, _)
\* the pieces of s[lo..hi] between single spaces; the halves are split apart
\* and the piece that runs across the middle is put together again
SplitSpaceFrom(s, lo, hi) ==
  IF lo > hi THEN << <<>> >>
  ELSE IF lo = hi THEN (IF s[lo] = " " THEN << <<>>, <<>> >> ELSE << <<s[lo]>> >>)
  ELSE LET mid == (lo + hi) \div 2
           left == SplitSpaceFrom(s, lo, mid)
           right == SplitSpaceFrom(s, mid + 1, hi)
       IN SubSeq(left, 1, Len(left) - 1) \o <<left[Len(left)] \o right[1]>> \o Tail(right)

\* String.prototype.split(' '): one piece more than there are spaces
SplitSpace(s) == SplitSpaceFrom(s, 1, Len(s))

RECURSIVE SplitWsFrom(_, _, _)
\* the pieces of s[lo..hi] between single whitespace characters
SplitWsFrom(s, lo, hi) ==
  IF lo > hi THEN << <<>> >>
  ELSE IF lo = hi THEN (IF IsSpace(s[lo]) THEN << <<>>, <<>> >> ELSE << <<s[lo]>> >>)
  ELSE LET mid == (lo + hi) \div 2
           left == SplitWsFrom(s, lo, mid)
           right == SplitWsFrom(s, mid + 1, hi)
       IN SubSeq(left, 1, Len(left) - 1) \o <<left[Len(left)] \o right[1]>> \o Tail(right)

NotEmpty(piece) == piece # <<>>

\* the empty pieces inside a run of whitespace are dropped: the run is one
\* separator
SkipWs(pieces) ==
  IF Len(pieces) < 2 THEN pieces
  ELSE <<pieces[1]>> \o SelectSeq(SubSeq(pieces, 2, Len(pieces) - 1), NotEmpty)
         \o <<pieces[Len(pieces)]>>

\* String.prototype.split(/\s+/): pieces between maximal runs of whitespace
SplitWs(s) == SkipWs(SplitWsFrom(s, 1, Len(s)))

RECURSIVE Dec(_)
\* Number.prototype.toString of a non-negative integer
Dec(n) == IF n < 10 THEN <<Digits[n + 1]>> ELSE Dec(n \div 10) \o <<Digits[(n % 10) + 1]>>

\* three-digit zero-padded milliseconds
Pad3(n) == <<Digits[(n \div 100) + 1], Digits[((n \div 10) % 10) + 1], Digits[(n % 10) + 1]>>

RECURSIVE ParseNat(_)
ParseNat(s) == IF s = <<>> THEN 0 ELSE 10 * ParseNat(SubSeq(s, 1, Len(s) - 1)) + DigitVal(s[Len(s)])

(***************************************************************************)
(* JavaScript values                                                       *)
(***************************************************************************)
UNDEF == [t |-> "undefined", s |-> <<>>]

NULL == [t |-> "null", s |-> <<>>]

Str(s) == [t |-> "string", s |-> s]

Num(n) == [t |-> "number", s |-> Dec(n)]

IsString(v) == v.t = "string"

\* ToBoolean
Truthy(v) == \/ v.t = "object"
             \/ v.t = "string" /\ v.s # <<>>
             \/ v.t = "number" /\ v.s # <<"0">>

\* a || b
Or(a, b) == IF Truthy(a) THEN a ELSE b

\* ToString, as a template literal applies it
JsToString(v) ==
  CASE v.t = "string" -> v.s
    [] v.t = "number" -> v.s
    [] v.t = "null" -> <<"n","u","l","l">>
    [] OTHER -> <<"u","n","d","e","f","i","n","e","d">>

(***************************************************************************)
(* Dates: new Date(value), compared by subtraction                         *)
(***************************************************************************)
IsLeap(y) == (y % 4 = 0 /\ y % 100 # 0) \/ y % 400 = 0

DaysInMonth(y, m) ==
  IF m = 2 THEN (IF IsLeap(y) THEN 29 ELSE 28)
  ELSE IF m \in {4, 6, 9, 11} THEN 30 ELSE 31

\* days from 1970-01-01 to the civil date y-m-d
DaysFromCivil(y, m, d) ==
  LET yy  == IF m <= 2 THEN y - 1 ELSE y
      era == yy \div 400
      yoe == yy - era * 400
      mp  == (m + 9) % 12
      doy == ((153 * mp + 2) \div 5) + d - 1
      doe == yoe * 365 + (yoe \div 4) - (yoe \div 100) + doy
  IN era * 146097 + doe - 719468

AllDigits(s, from, to) == \A i \in from..to : IsDigit(s[i])

\* the ISO-8601 shapes YYYY-MM-DDTHH:MM:SSZ and YYYY-MM-DDTHH:MM:SS.mmmZ
IsoShape(s) ==
  /\ Len(s) \in {20, 24}
  /\ AllDigits(s, 1, 4) /\ s[5] = "-" /\ AllDigits(s, 6, 7) /\ s[8] = "-"
  /\ AllDigits(s, 9, 10) /\ s[11] = "T" /\ AllDigits(s, 12, 13) /\ s[14] = ":"
  /\ AllDigits(s, 15, 16) /\ s[17] = ":" /\ AllDigits(s, 18, 19)
  /\ IF Len(s) = 20 THEN s[20] = "Z"
     ELSE s[20] = "." /\ AllDigits(s, 21, 23) /\ s[24] = "Z"

NaN == [nan |-> TRUE, sec |-> 0, ms |-> 0]

Time(sec, ms) == [nan |-> FALSE, sec |-> sec, ms |-> ms]

\* Date.parse of a string: whole seconds since the epoch and milliseconds.
\* Strings of no ISO shape are the unparseable ones of the model.
ParseIso(s) ==
  IF ~IsoShape(s) THEN NaN
  ELSE LET y  == ParseNat(SubSeq(s, 1, 4))
           mo == ParseNat(SubSeq(s, 6, 7))
           d  == ParseNat(SubSeq(s, 9, 10))
           h  == ParseNat(SubSeq(s, 12, 13))
           mi == ParseNat(SubSeq(s, 15, 16))
           se == ParseNat(SubSeq(s, 18, 19))
           ms == IF Len(s) = 24 THEN ParseNat(SubSeq(s, 21, 23)) ELSE 0
       IN IF /\ y \in 1970..2037 /\ mo \in 1..12 /\ d \in 1..DaysInMonth(y, mo)
             /\ h <= 23 /\ mi <= 59 /\ se <= 59
          THEN Time(DaysFromCivil(y, mo, d) * 86400 + h * 3600 + mi * 60 + se, ms)
          ELSE NaN

\* new Date(v).getTime()
DateOf(v) ==
  CASE v.t = "string" -> ParseIso(v.s)
    [] v.t = "number" -> Time(ParseNat(v.s) \div 1000, ParseNat(v.s) % 1000)
    [] v.t = "null" -> Time(0, 0)
    [] OTHER -> NaN

\* the sign of new Date(b) - new Date(a), "NaN" when either date is invalid
DateDiffSign(b, a) ==
  LET tb == DateOf(b)
      ta == DateOf(a)
  IN IF tb.nan \/ ta.nan THEN "NaN"
     ELSE IF tb.sec # ta.sec THEN (IF tb.sec > ta.sec THEN "+" ELSE "-")
     ELSE IF tb.ms # ta.ms THEN (IF tb.ms > ta.ms THEN "+" ELSE "-")
     ELSE "0"

(***************************************************************************)
(* Buffer.from(url).toString('base64')                                     *)
(***************************************************************************)
B64Char(n) == B64[n + 1]

RECURSIVE Base64From(_, _)
Base64From(s, i) ==
  LET left == Len(s) - i + 1
      b1 == CharCode(s[i])
      b2 == IF left >= 2 THEN CharCode(s[i + 1]) ELSE 0
      b3 == IF left >= 3 THEN CharCode(s[i + 2]) ELSE 0
      n  == b1 * 65536 + b2 * 256 + b3
  IN IF left <= 0 THEN <<>>
     ELSE IF left = 1 THEN <<B64Char(n \div 262144), B64Char((n \div 4096) % 64), "=", "=">>
     ELSE IF left = 2
       THEN <<B64Char(n \div 262144), B64Char((n \div 4096) % 64), B64Char((n \div 64) % 64), "=">>
     ELSE <<B64Char(n \div 262144), B64Char((n \div 4096) % 64), B64Char((n \div 64) % 64),
            B64Char(n % 64)>> \o Base64From(s, i + 3)

Base64(s) == Base64From(s, 1)

(***************************************************************************)
(* The environment: the wall clock and the Buffer global                   *)
(***************************************************************************)
\* The clock of the model stays within one second, the one that starts at
\* ClockBaseIso; `now` is the number of milliseconds into that second.
ClockBaseIso == <<"2","0","2","4","-","0","3","-","1","3","T","1","2",":","0","0",":","0","0">>

ClockBaseSec == ParseIso(ClockBaseIso \o <<"Z">>).sec

\* String(Date.now())
NowMs(now) == Dec(ClockBaseSec) \o Pad3(now)

\* new Date().toISOString()
NowIso(now) == ClockBaseIso \o <<".">> \o Pad3(now) \o <<"Z">>

(***************************************************************************)
(* Source configurations                                                   *)
(***************************************************************************)
GUARDIAN == <<"g","u","a","r","d","i","a","n">>

NEWSAPI == <<"n","e","w","s","a","p","i">>

SOURCE_CONFIGS ==
  [k \in {GUARDIAN, NEWSAPI} |->
     IF k = GUARDIAN
     THEN [name |-> <<"T","h","e"," ","G","u","a","r","d","i","a","n">>, transformer |-> "normalizeGuardianArticle",
           idPrefix |-> <<"g","u","a","r","d","i","a","n","-">>]
     ELSE [name |-> <<"N","e","w","s","A","P","I">>, transformer |-> "normalizeNewsAPIArticle",
           idPrefix |-> <<"n","e","w","s","a","p","i","-">>]]

\* SOURCE_CONFIGS[sourceId] is defined
HasConfig(sourceId) == sourceId \in DOMAIN SOURCE_CONFIGS

(***************************************************************************)
(* Keywords and sentiment                                                  *)
(***************************************************************************)
stopWords ==
  {<<"t","h","e">>, <<"a">>, <<"a","n">>, <<"a","n","d">>, <<"o","r">>, <<"b","u","t">>, <<"i","n">>, <<"o","n">>, <<"a","t">>, <<"t","o">>,
   <<"f","o","r">>, <<"o","f">>, <<"w","i","t","h">>, <<"b","y">>}

positiveWords ==
  {<<"g","o","o","d">>, <<"g","r","e","a","t">>, <<"e","x","c","e","l","l","e","n","t">>, <<"a","m","a","z","i","n","g">>, <<"w","o","n","d","e","r","f","u","l">>, <<"f","a","n","t","a","s","t","i","c">>,
   <<"b","r","i","l","l","i","a","n","t">>, <<"s","u","c","c","e","s","s">>, <<"w","i","n">>, <<"h","a","p","p","y">>, <<"l","o","v","e">>, <<"b","e","s","t">>}

negativeWords ==
  {<<"b","a","d">>, <<"t","e","r","r","i","b","l","e">>, <<"a","w","f","u","l">>, <<"h","o","r","r","i","b","l","e">>, <<"w","o","r","s","t">>, <<"f","a","i","l","u","r","e">>, <<"l","o","s","e">>,
   <<"s","a","d">>, <<"h","a","t","e">>, <<"a","n","g","r","y">>, <<"c","r","i","s","i","s">>, <<"w","a","r">>, <<"d","e","a","t","h">>}

\* the regular-expression class \w
IsWordChar(c) == c \in Range(Upper) \cup Range(Lower) \cup Range(Digits) \cup {"_"}

KeepsWordOrSpace(c) == IsWordChar(c) \/ IsSpace(c)

\* the filter word.length >= 3
IsKeywordFromThree(word) == Len(word) >= 3 /\ word \notin stopWords

\* the filter of extractKeywords: word.length > 3 && !stopWords.has(word)
IsKeyword(word) == Len(word) > 3 /\ word \notin stopWords

\* extractKeywords(text), text a string
extractKeywords(text) ==
  IF text = <<>> THEN <<>>
  ELSE SliceTo(SelectSeq(SplitWs(SelectSeq(ToLowerCase(text), KeepsWordOrSpace)), IsKeyword), 10)

\* the score after words.forEach from position i on: one up for every positive
\* word, one down for every negative word
SumHits(words, i) ==
  Cardinality({k \in i..Len(words) : words[k] \in positiveWords})
    - Cardinality({k \in i..Len(words) : words[k] \in negativeWords})

\* the score returned as it is, without Math.max(-1, Math.min(1, score))
NoClamp(lo, x, hi) == x

Clamp(lo, x, hi) == IF x < lo THEN lo ELSE IF x > hi THEN hi ELSE x

\* calculateSentiment(text), text a string. The score is counted in tenths:
\* the result n stands for the number n / 10, so -10..10 is the range [-1, 1].
calculateSentiment(text) ==
  IF text = <<>> THEN 0
  ELSE Clamp(-10, SumHits(SplitWs(ToLowerCase(text)), 1), 10)

CeilDiv(n, d) == (n + d - 1) \div d

Max(a, b) == IF a >= b THEN a ELSE b

\* Math.max(1, Math.ceil(content.split(' ').length / 200))
\* a reading time taken from the number of characters
ReadingTimeByCharacters(content) == Max(1, CeilDiv(Len(content), 200))

\* Math.max(1, Math.ceil(content.split(' ').length / 200))
ReadingTime(content) == Max(1, CeilDiv(Len(SplitSpace(content)), 200))

(***************************************************************************)
(* Raw provider payloads                                                   *)
(***************************************************************************)
NoFields == [trailText |-> UNDEF, body |-> UNDEF, headline |-> UNDEF, thumbnail |-> UNDEF]

NoTags == [kind |-> "absent", items |-> <<>>]

TagArray(items) == [kind |-> "array", items |-> items]

Tag(type, webTitle) == [isNull |-> FALSE, type |-> type, webTitle |-> webTitle]

NullTag == [isNull |-> TRUE, type |-> UNDEF, webTitle |-> UNDEF]

\* the object {}: every property of either provider's schema is absent
EmptyObject ==
  [isNull |-> FALSE,
   id |-> UNDEF, webTitle |-> UNDEF, webUrl |-> UNDEF, webPublicationDate |-> UNDEF,
   sectionName |-> UNDEF, fields |-> NoFields, tags |-> NoTags,
   title |-> UNDEF, description |-> UNDEF, content |-> UNDEF, url |-> UNDEF,
   urlToImage |-> UNDEF, author |-> UNDEF, publishedAt |-> UNDEF, sourceName |-> UNDEF]

\* the value null (or undefined) in the place of an article
NullArticle == [EmptyObject EXCEPT !.isNull = TRUE]

(***************************************************************************)
(* The per-provider transformers                                           *)
(***************************************************************************)
\* A unified article is a record with t = "object"; `absent` names those of
\* its properties categories, tags and normalized that are undefined.
\* createFallbackArticle(sourceId, index)
createFallbackArticle(sourceId, index, now) ==
  [t |-> "object",
   id |-> Str(sourceId \o <<"-","f","a","l","l","b","a","c","k","-">> \o NowMs(now) \o <<"-">> \o Dec(index)),
   title |-> Str(<<"A","r","t","i","c","l","e"," ","U","n","a","v","a","i","l","a","b","l","e">>),
   description |-> Str(<<"U","n","a","b","l","e"," ","t","o"," ","l","o","a","d"," ","a","r","t","i","c","l","e"," ","c","o","n","t","e","n","t">>),
   content |-> Str(<<>>),
   url |-> Str(<<"#">>),
   imageUrl |-> NULL,
   source |-> [t |-> "object", id |-> Str(sourceId),
               name |-> Str(IF HasConfig(sourceId) THEN SOURCE_CONFIGS[sourceId].name
                            ELSE sourceId)],
   author |-> NULL,
   publishedAt |-> Str(NowIso(now)),
   categories |-> <<Str(<<"G","e","n","e","r","a","l">>)>>,
   tags |-> <<>>,
   normalized |-> [readingTime |-> 1, sentiment |-> 0, keywords |-> <<>>],
   absent |-> {}]

TagTitle(tag) == tag.webTitle

\* tags.map(tag => tag.webTitle) without .filter(Boolean)
TagTitlesUnfiltered(tags) == [i \in 1..Len(tags) |-> TagTitle(tags[i])]

\* tags.map(tag => tag.webTitle).filter(Boolean)
TagTitles(tags) == SelectSeq([i \in 1..Len(tags) |-> TagTitle(tags[i])], Truthy)

\* the url as the provider gave it, without the '#' placeholder
UrlAsGiven(url) == url

\* article.webUrl || '#', article.url || '#'
UrlOrPlaceholder(url) == Or(url, Str(<<"#">>))

\* the time of normalization in the place of the provider's date
PublishedNow(date, now) == Str(NowIso(now))

\* article.webPublicationDate || new Date().toISOString(), and the same for
\* article.publishedAt
PublishedAt(date, now) == Or(date, Str(NowIso(now)))

\* fields.body || fields.trailText || '', article.content || article.description || ''
BodyOrSummary(body, summary) == Or(Or(body, summary), Str(<<>>))

IsContributor(tag) == tag.type = Str(<<"c","o","n","t","r","i","b","u","t","o","r">>)

\* the statements of normalizeGuardianArticle's try block that throw
GuardianThrows(article) ==
  \/ article.isNull
  \/ article.tags.kind = "string"
  \/ \E i \in 1..Len(article.tags.items) : article.tags.items[i].isNull
  \/ ~IsString(Or(Or(article.fields.trailText, article.webTitle), Str(<<>>)))
  \/ Truthy(article.webTitle) /\ ~IsString(article.webTitle)

\* normalizeGuardianArticle(article, index)
normalizeGuardianArticle(article, index, now) ==
  IF GuardianThrows(article) THEN createFallbackArticle(GUARDIAN, index, now)
  ELSE
    LET fields == article.fields
        tags == article.tags.items
        contributors == SelectSeq(tags, IsContributor)
        author == IF contributors # <<>> THEN contributors[1].webTitle ELSE NULL
        id == <<"g","u","a","r","d","i","a","n","-">> \o JsToString(Or(article.id, Str(NowMs(now) \o <<"-">> \o Dec(index))))
        content == Or(Or(fields.trailText, article.webTitle), Str(<<>>))
    IN [t |-> "object",
        id |-> Str(id),
        title |-> Or(article.webTitle, Str(<<"U","n","t","i","t","l","e","d">>)),
        description |-> Or(Or(fields.trailText, fields.headline), Str(<<>>)),
        content |-> BodyOrSummary(fields.body, fields.trailText),
        url |-> UrlOrPlaceholder(article.webUrl),
        imageUrl |-> Or(fields.thumbnail, NULL),
        source |-> [t |-> "object", id |-> Str(GUARDIAN), name |-> Str(<<"T","h","e"," ","G","u","a","r","d","i","a","n">>)],
        author |-> author,
        publishedAt |-> PublishedAt(article.webPublicationDate, now),
        categories |-> SelectSeq(<<Or(article.sectionName, Str(<<"G","e","n","e","r","a","l">>))>>, Truthy),
        tags |-> TagTitles(tags),
        normalized |-> [readingTime |-> ReadingTime(content.s),
                        sentiment |-> 0,
                        keywords |-> extractKeywords(Or(article.webTitle, Str(<<>>)).s)],
        absent |-> {}]

\* the statements of normalizeNewsAPIArticle's try block that throw; Buffer is
\* a global of Node.js only, and Buffer.from rejects a number
NewsAPIThrows(article, buffer) ==
  \/ article.isNull
  \/ Truthy(article.url) /\ (~buffer \/ ~IsString(article.url))
  \/ ~IsString(Or(Or(Or(article.content, article.description), article.title), Str(<<>>)))

\* normalizeNewsAPIArticle(article, index)
normalizeNewsAPIArticle(article, index, now, buffer) ==
  IF NewsAPIThrows(article, buffer) THEN createFallbackArticle(NEWSAPI, index, now)
  ELSE
    LET id == <<"n","e","w","s","a","p","i","-">> \o (IF Truthy(article.url) THEN SliceTo(Base64(article.url.s), 20)
                               ELSE NowMs(now) \o <<"-">> \o Dec(index))
        content == Or(Or(Or(article.content, article.description), article.title), Str(<<>>))
    IN [t |-> "object",
        id |-> Str(id),
        title |-> Or(article.title, Str(<<"U","n","t","i","t","l","e","d">>)),
        description |-> Or(article.description, Str(<<>>)),
        content |-> BodyOrSummary(article.content, article.description),
        url |-> UrlOrPlaceholder(article.url),
        imageUrl |-> Or(article.urlToImage, NULL),
        source |-> [t |-> "object", id |-> Str(NEWSAPI),
                    name |-> Or(article.sourceName, Str(<<"N","e","w","s","A","P","I">>))],
        author |-> Or(article.author, NULL),
        publishedAt |-> PublishedAt(article.publishedAt, now),
        categories |-> <<Str(<<"G","e","n","e","r","a","l">>)>>,
        tags |-> <<>>,
        normalized |-> [readingTime |-> ReadingTime(content.s),
                        sentiment |-> 0,
                        keywords |-> extractKeywords(
                          JsToString(Or(article.title, Str(<<>>))) \o <<" ">>
                          \o JsToString(Or(article.description, Str(<<>>))))],
        absent |-> {}]

\* config.transformer(article, index)
Transform(sourceId, article, index, now, buffer) ==
  IF SOURCE_CONFIGS[sourceId].transformer = "normalizeGuardianArticle"
  THEN normalizeGuardianArticle(article, index, now)
  ELSE normalizeNewsAPIArticle(article, index, now, buffer)

(***************************************************************************)
(* normalizeArticles and normalizeArticle                                  *)
(***************************************************************************)
ArrayOf(items) == [isArray |-> TRUE, items |-> items]

NotAnArray == [isArray |-> FALSE, items |-> <<>>]

\* a function that reorders the array it is given in place (Array.prototype.sort
\* on the parameter): the argument afterwards is the array reversed
ArgumentSortedInPlace(argument) ==
  IF "isArray" \in DOMAIN argument
  THEN [argument EXCEPT !.items = [i \in 1..Len(@) |-> @[Len(@) + 1 - i]]]
  ELSE argument

\* an argument as a call leaves it. No exported function assigns to an element
\* or a property of a parameter: map, flat, filter, slice and the object spread
\* build new arrays and objects, sort is applied to the local array `merged`,
\* and the one assignment (normalized.normalized.sentiment) is to the record
\* the transformer has just created.
ArgumentAfter(argument) == argument

\* the text the sentiment is computed from: normalized.content || normalized.description
SentimentText(normalized) == Or(normalized.content, normalized.description)

\* the callback without the fallback for a throwing sentiment step
NormalizeItemUncaught(sourceId, article, index, now, buffer) ==
  LET normalized == Transform(sourceId, article, index, now, buffer)
      text == SentimentText(normalized)
  IN IF ~Truthy(text) \/ ~IsString(text) THEN normalized
     ELSE [normalized EXCEPT !.normalized.sentiment = calculateSentiment(text.s)]

\* the callback of articles.map in normalizeArticles, for the item at `index`
\* (0-based, as in the code)
NormalizeItem(sourceId, article, index, now, buffer) ==
  LET normalized == Transform(sourceId, article, index, now, buffer)
      text == SentimentText(normalized)
  IN IF ~Truthy(text) THEN normalized
     ELSE IF ~IsString(text) THEN createFallbackArticle(sourceId, index, now)
     ELSE [normalized EXCEPT !.normalized.sentiment = calculateSentiment(text.s)]

IsUsable(rec) == rec.title # Str(<<"A","r","t","i","c","l","e"," ","U","n","a","v","a","i","l","a","b","l","e">>)

\* a map whose callback returns null for a failed item, which filter(Boolean) drops
MapItemsDroppingFailed(sourceId, items, now, buffer) ==
  SelectSeq([i \in 1..Len(items) |-> NormalizeItem(sourceId, items[i], i - 1, now, buffer)],
            IsUsable)

\* articles.map(callback).filter(Boolean): every mapped value is an object
MapItems(sourceId, items, now, buffer) ==
  [i \in 1..Len(items) |-> NormalizeItem(sourceId, items[i], i - 1, now, buffer)]

\* the unknown sourceId passed on to createFallbackArticle
EchoSourceId(sourceId) == sourceId

\* the sourceId the fallback records of an unknown source are made with
UnknownSourceId(sourceId) == <<"u","n","k","n","o","w","n">>

\* normalizeArticles(articles, sourceId)
normalizeArticles(articles, sourceId, now, buffer) ==
  IF ~articles.isArray THEN <<>>
  ELSE IF ~HasConfig(sourceId)
    THEN [i \in 1..Len(articles.items) |->
            createFallbackArticle(UnknownSourceId(sourceId), i - 1, now)]
  ELSE MapItems(sourceId, articles.items, now, buffer)

\* normalizeArticle(article, sourceId)
normalizeArticle(article, sourceId, now, buffer) ==
  LET normalized == normalizeArticles(ArrayOf(<<article>>), sourceId, now, buffer)
  IN IF normalized # <<>> THEN normalized[1] ELSE createFallbackArticle(sourceId, 0, now)

\* validateArticle: the required fields that are missing (falsy)
RequiredFields(article) ==
  <<article.id, article.title, article.url, article.source, article.publishedAt>>

\* validateArticle(article) dereferences article
validateArticleThrows(article) == article.t # "object"

\* validateArticle(article), article an object
validateArticle(article) ==
  \A i \in 1..Len(RequiredFields(article)) : Truthy(RequiredFields(article)[i])

(***************************************************************************)
(* mergeAndDeduplicateArticles                                             *)
(***************************************************************************)
RECURSIVE Flat(_)
\* articlesArray.flat()
Flat(batches) == IF batches = <<>> THEN <<>> ELSE Head(batches) \o Flat(Tail(batches))

\* the key of the Set `seen`: the url, or title-source.id under the placeholder url
DedupKey(article) ==
  IF article.url # Str(<<"#">>) THEN article.url
  ELSE Str(JsToString(article.title) \o <<"-">> \o JsToString(article.source.id))

\* the loop over allArticles reads article.url, and article.source.id under
\* the placeholder url
DedupThrows(list) ==
  \E i \in 1..Len(list) :
    \/ list[i].t # "object"
    \/ list[i].url = Str(<<"#">>) /\ list[i].source.t # "object"

RECURSIVE DedupKeepingLastFrom(_, _)
DedupKeepingLastFrom(list, i) ==
  IF i > Len(list) THEN <<>>
  ELSE IF \E j \in (i + 1)..Len(list) : DedupKey(list[j]) = DedupKey(list[i])
    THEN DedupKeepingLastFrom(list, i + 1)
  ELSE <<list[i]>> \o DedupKeepingLastFrom(list, i + 1)

\* a loop that lets a later article replace the one seen before under its key
DedupKeepingLast(list) == DedupKeepingLastFrom(list, 1)

RECURSIVE DedupFrom(_, _, _)
DedupFrom(list, i, seen) ==
  IF i > Len(list) THEN <<>>
  ELSE IF DedupKey(list[i]) \in seen THEN DedupFrom(list, i + 1, seen)
  ELSE <<list[i]>> \o DedupFrom(list, i + 1, seen \cup {DedupKey(list[i])})

\* the loop that fills `merged`: the first article of every key, in order
Dedup(list) == DedupFrom(list, 1, {})

\* the comparator (a, b) => new Date(b.publishedAt) - new Date(a.publishedAt),
\* with a NaN result read as +0 (SortCompare)
ByDateAscending(a, b) ==
  LET sign == DateDiffSign(a.publishedAt, b.publishedAt)
  IN IF sign = "NaN" THEN "0" ELSE sign

ByDateDescending(a, b) ==
  LET sign == DateDiffSign(b.publishedAt, a.publishedAt)
  IN IF sign = "NaN" THEN "0" ELSE sign

\* x goes behind every element it does not have to precede
InsertInOrder(sorted, x) ==
  LET before == {k \in 1..Len(sorted) : ByDateDescending(x, sorted[k]) = "-"}
      at == IF before = {} THEN Len(sorted) + 1
            ELSE CHOOSE k \in before : \A other \in before : k <= other
  IN SubSeq(sorted, 1, at - 1) \o <<x>> \o SubSeq(sorted, at, Len(sorted))

RECURSIVE OldestFirst(_)
\* a sort whose comparator is a - b in place of b - a
OldestFirst(list) ==
  IF list = <<>> THEN <<>>
  ELSE LET rest == OldestFirst(SubSeq(list, 1, Len(list) - 1))
           x == list[Len(list)]
           before == {k \in 1..Len(rest) : ByDateAscending(x, rest[k]) = "-"}
           at == IF before = {} THEN Len(rest) + 1
                 ELSE CHOOSE k \in before : \A other \in before : k <= other
       IN SubSeq(rest, 1, at - 1) \o <<x>> \o SubSeq(rest, at, Len(rest))

RECURSIVE StableSort(_)
\* the order a stable sort gives under a consistent comparator
StableSort(list) ==
  IF list = <<>> THEN <<>>
  ELSE InsertInOrder(StableSort(SubSeq(list, 1, Len(list) - 1)), list[Len(list)])

\* the comparator orders the list consistently: no date is invalid, or no
\* two articles are told apart
ConsistentOrder(list) ==
  \/ \A i \in 1..Len(list) : ~DateOf(list[i].publishedAt).nan
  \/ \A i, j \in 1..Len(list) : ByDateDescending(list[i], list[j]) = "0"

Reorderings(list) ==
  {[i \in 1..Len(list) |-> list[p[i]]] :
     p \in {q \in [1..Len(list) -> 1..Len(list)] :
              \A i, j \in 1..Len(list) : i # j => q[i] # q[j]}}

\* merged.sort(comparator): the outcomes Array.prototype.sort can give. Under
\* an inconsistent comparator the order is implementation-defined.
SortOutcomes(list) ==
  IF ConsistentOrder(list) THEN {StableSort(list)} ELSE Reorderings(list)

mergeAndDeduplicateArticlesThrows(articlesArray) == DedupThrows(Flat(articlesArray))

\* mergeAndDeduplicateArticles(articlesArray): the set of its possible results
mergeAndDeduplicateArticles(articlesArray) == SortOutcomes(Dedup(Flat(articlesArray)))

(***************************************************************************)
(* Presentation helpers                                                    *)
(***************************************************************************)
\* the property names every object inherits from Object.prototype
ObjectPrototypeKeys ==
  {<<"c","o","n","s","t","r","u","c","t","o","r">>, <<"t","o","S","t","r","i","n","g">>, <<"t","o","L","o","c","a","l","e","S","t","r","i","n","g">>, <<"v","a","l","u","e","O","f">>, <<"h","a","s","O","w","n","P","r","o","p","e","r","t","y">>,
   <<"i","s","P","r","o","t","o","t","y","p","e","O","f">>, <<"p","r","o","p","e","r","t","y","I","s","E","n","u","m","e","r","a","b","l","e">>, <<"_","_","p","r","o","t","o","_","_">>, <<"_","_","d","e","f","i","n","e","G","e","t","t","e","r","_","_">>,
   <<"_","_","d","e","f","i","n","e","S","e","t","t","e","r","_","_">>, <<"_","_","l","o","o","k","u","p","G","e","t","t","e","r","_","_">>, <<"_","_","l","o","o","k","u","p","S","e","t","t","e","r","_","_">>}

\* article.categories || ['General']
CategoriesOf(article) ==
  IF "categories" \in article.absent THEN <<Str(<<"G","e","n","e","r","a","l">>)>> ELSE article.categories

\* the categories of all articles, as property names
CategoryKeys(list) ==
  UNION {IF list[i].t = "object"
         THEN {JsToString(CategoriesOf(list[i])[k]) : k \in 1..Len(CategoriesOf(list[i]))}
         ELSE {} : i \in 1..Len(list)}

\* groupByCategory reads article.categories of every article, and pushes to
\* grouped[category], which a key of Object.prototype makes a non-array
groupByCategoryThrows(list) ==
  \/ \E i \in 1..Len(list) : list[i].t # "object"
  \/ CategoryKeys(list) \cap ObjectPrototypeKeys # {}

RECURSIVE MembersOf(_, _, _)
\* the articles pushed under `key`: one push per category entry equal to it
MembersOf(list, key, i) ==
  IF i > Len(list) THEN <<>>
  ELSE LET cats == CategoriesOf(list[i])
           hits == SelectSeq([k \in 1..Len(cats) |-> JsToString(cats[k])], LAMBDA c : c = key)
       IN [k \in 1..Len(hits) |-> list[i]] \o MembersOf(list, key, i + 1)

\* groupByCategory(articles): the object `grouped`
groupByCategory(list) == [key \in CategoryKeys(list) |-> MembersOf(list, key, 1)]

\* article.normalized?.keywords || []
KeywordsOf(article) ==
  IF "normalized" \in article.absent THEN <<>> ELSE article.normalized.keywords

RECURSIVE AllKeywords(_)
AllKeywords(list) ==
  IF list = <<>> THEN <<>> ELSE KeywordsOf(Head(list)) \o AllKeywords(Tail(list))

extractTrendingTopicsThrows(list) == \E i \in 1..Len(list) : list[i].t # "object"

\* a canonical array index: the property names an object lists first, in
\* ascending numeric order
IsIndexKey(key) ==
  /\ key # <<>>
  /\ \A i \in 1..Len(key) : IsDigit(key[i])
  /\ Len(key) = 1 \/ key[1] # "0"
  /\ Len(key) <= 9

Occurrences(all, key) == Cardinality({i \in 1..Len(all) : all[i] = key})

RECURSIVE FirstSeen(_, _, _)
\* the distinct keywords in the order of their first occurrence
FirstSeen(all, i, seen) ==
  IF i > Len(all) THEN <<>>
  ELSE IF all[i] \in seen THEN FirstSeen(all, i + 1, seen)
  ELSE <<all[i]>> \o FirstSeen(all, i + 1, seen \cup {all[i]})

RECURSIVE AscendingIndexKeys(_)
AscendingIndexKeys(keys) ==
  IF keys = {} THEN <<>>
  ELSE LET least == CHOOSE k \in keys : \A other \in keys : ParseNat(k) <= ParseNat(other)
       IN <<least>> \o AscendingIndexKeys(keys \ {least})

NotIndexKey(key) == ~IsIndexKey(key)

\* Object.entries(keywordCount): index keys ascending, then the other keys in
\* insertion order. An assignment to __proto__ creates no property.
EntryKeys(all) ==
  LET own == SelectSeq(FirstSeen(all, 1, {}), LAMBDA k : k # <<"_","_","p","r","o","t","o","_","_">>)
  IN AscendingIndexKeys({k \in Range(own) : IsIndexKey(k)}) \o SelectSeq(own, NotIndexKey)

\* b[1] - a[1] > 0: the count of b exceeds the count of a. The count of a key
\* of Object.prototype is a string, the difference is NaN, and the sort reads
\* NaN as "equal".
CountExceeds(all, b, a) ==
  /\ a \notin ObjectPrototypeKeys
  /\ b \notin ObjectPrototypeKeys
  /\ Occurrences(all, b) > Occurrences(all, a)

RECURSIVE ByCountFrom(_, _, _)
\* a stable sort of the keys by descending count
ByCountFrom(keys, all, i) ==
  IF i > Len(keys) THEN <<>>
  ELSE LET rest == ByCountFrom(keys, all, i + 1)
           x == keys[i]
           after == {k \in 1..Len(rest) : CountExceeds(all, rest[k], x)}
           at == IF after = {} THEN 0 ELSE CHOOSE k \in after : \A other \in after : k >= other
       IN SubSeq(rest, 1, at) \o <<x>> \o SubSeq(rest, at + 1, Len(rest))

\* "equal" is transitive: the comparator orders the entries consistently
CountsComparable(all) ==
  LET keys == Range(EntryKeys(all))
      Equal(a, b) == ~CountExceeds(all, a, b) /\ ~CountExceeds(all, b, a)
  IN \A a, b, c \in keys : Equal(a, b) /\ Equal(b, c) => Equal(a, c)

\* extractTrendingTopics(articles, limit): the set of its possible results; an
\* inconsistent comparator leaves the order to the implementation
extractTrendingTopics(list, limit) ==
  LET all == AllKeywords(list)
      keys == EntryKeys(all)
  IN IF CountsComparable(all)
     THEN {SliceTo(ByCountFrom(keys, all, 1), limit)}
     ELSE {SliceTo(order, limit) : order \in Reorderings(keys)}

calculateQualityScoreThrows(article) == article.t # "object"

\* (article.content || '').length > n; a number has no length
ContentLonger(article, n) ==
  LET content == Or(article.content, Str(<<>>))
  IN IsString(content) /\ Len(content.s) > n

Abs(n) == IF n < 0 THEN -n ELSE n

\* the score with the three length tiers tested by separate ifs and returned
\* without Math.min(100, Math.max(0, score))
calculateQualityScoreUnbounded(article) ==
  LET sentiment == IF "normalized" \in article.absent THEN 0 ELSE article.normalized.sentiment
  IN 50
     + (IF Truthy(article.imageUrl) THEN 10 ELSE 0)
     + (IF Truthy(article.author) THEN 10 ELSE 0)
     + (IF ContentLonger(article, 500) THEN 15 ELSE 0)
     + (IF ContentLonger(article, 200) THEN 10 ELSE 0)
     + (IF ContentLonger(article, 50) THEN 5 ELSE 0)
     + (IF "categories" \notin article.absent /\ Len(article.categories) > 1 THEN 5 ELSE 0)
     + (IF "tags" \notin article.absent /\ Len(article.tags) > 2 THEN 5 ELSE 0)
     + (IF Abs(sentiment) < 3 THEN 5 ELSE 0)

\* calculateQualityScore(article); |sentiment| < 0.3 is |tenths| < 3
calculateQualityScore(article) ==
  LET sentiment == IF "normalized" \in article.absent THEN 0 ELSE article.normalized.sentiment
      score ==
        50
        + (IF Truthy(article.imageUrl) THEN 10 ELSE 0)
        + (IF Truthy(article.author) THEN 10 ELSE 0)
        + (IF ContentLonger(article, 500) THEN 15
           ELSE IF ContentLonger(article, 200) THEN 10
           ELSE IF ContentLonger(article, 50) THEN 5 ELSE 0)
        + (IF "categories" \notin article.absent /\ Len(article.categories) > 1 THEN 5 ELSE 0)
        + (IF "tags" \notin article.absent /\ Len(article.tags) > 2 THEN 5 ELSE 0)
        + (IF Abs(sentiment) < 3 THEN 5 ELSE 0)
  IN Clamp(0, score, 100)

\* what Date.prototype.toLocaleDateString returns for a valid date: a string
\* that depends on the locale of the host
LocaleDate == Str(<<"(","l","o","c","a","l","e"," ","d","a","t","e",")">>)

SignedDec(n) == IF n < 0 THEN <<"-">> \o Dec(-n) ELSE Dec(n)

Plural(n) == IF n # 1 THEN <<"s">> ELSE <<>>

\* getTimeAgo(dateString) at the time `now`
getTimeAgo(value, now) ==
  LET date == DateOf(value)
      dms == now - date.ms
      \* whole seconds from date to now, rounded down
      secs == (ClockBaseSec - date.sec) + (IF dms < 0 THEN -1 ELSE 0)
      diffMins == secs \div 60
      diffHours == secs \div 3600
      diffDays == secs \div 86400
  IN IF date.nan THEN Str(<<"I","n","v","a","l","i","d"," ","D","a","t","e">>)
     ELSE IF diffMins < 60 THEN Str(SignedDec(diffMins) \o <<" ","m","i","n">> \o Plural(diffMins) \o <<" ","a","g","o">>)
     ELSE IF diffHours < 24
       THEN Str(SignedDec(diffHours) \o <<" ","h","o","u","r">> \o Plural(diffHours) \o <<" ","a","g","o">>)
     ELSE IF diffDays < 7 THEN Str(SignedDec(diffDays) \o <<" ","d","a","y">> \o Plural(diffDays) \o <<" ","a","g","o">>)
     ELSE LocaleDate

\* the cut made at the budget itself: text.slice(0, budget) + '...'
TruncatedAtBudget(text, budget) ==
  IF IsString(text) /\ Len(text.s) > budget
  THEN Str(SliceTo(text.s, budget) \o <<".",".",".">>)
  ELSE text

\* text.length > budget ? text.slice(0, budget - 3) + '...' : text
Truncated(text, budget) ==
  IF IsString(text) /\ Len(text.s) > budget
  THEN Str(SliceTo(text.s, budget - 3) \o <<".",".",".">>)
  ELSE text

Nullish(v) == v.t \in {"undefined", "null"}

formatArticleForViewThrows(article, viewType) ==
  \/ viewType = "card" /\ (article.t # "object" \/ Nullish(article.title))
  \/ viewType = "detailed" /\ article.t # "object"
  \/ viewType = "minimal" /\ (article.t # "object" \/ article.source.t # "object")

\* formatArticleForView(article, viewType); `article` holds the properties
\* the spread copies
formatArticleForView(article, viewType, now) ==
  CASE viewType = "card" ->
         [view |-> "card", article |-> article,
          displayTitle |-> Truncated(article.title, 60),
          displayDescription |-> Truncated(article.description, 120),
          timeAgo |-> getTimeAgo(article.publishedAt, now),
          qualityScore |-> calculateQualityScore(article)]
    [] viewType = "detailed" ->
         [view |-> "detailed", article |-> article,
          timeAgo |-> getTimeAgo(article.publishedAt, now),
          readingTime |->
            Str(Dec(IF "normalized" \in article.absent \/ article.normalized.readingTime = 0
                    THEN 1 ELSE article.normalized.readingTime) \o <<" ","m","i","n"," ","r","e","a","d">>),
          qualityScore |-> calculateQualityScore(article)]
    [] viewType = "minimal" ->
         [view |-> "minimal", id |-> article.id, title |-> article.title,
          source |-> article.source.name,
          timeAgo |-> getTimeAgo(article.publishedAt, now), url |-> article.url]
    [] OTHER -> article

\* the class of the pattern /</g: only the opening bracket
IsNoOpeningBracket(c) == c # "<"

IsNoBracket(c) == c \notin {"<", ">"}

\* value?.replace(/[<>]/g, '') || fallback
Stripped(value, fallback) ==
  IF Nullish(value) THEN fallback ELSE Or(Str(SelectSeq(value.s, IsNoBracket)), fallback)

TextFields(article) ==
  <<article.title, article.description, article.content, article.url, article.imageUrl,
    article.author>>

\* sanitizeArticle reads article.title, and calls replace on every text field
\* that is neither null nor undefined
sanitizeArticleThrows(article) ==
  \/ article.t # "object"
  \/ \E i \in 1..Len(TextFields(article)) :
       ~Nullish(TextFields(article)[i]) /\ ~IsString(TextFields(article)[i])

\* sanitizeArticle(article)
sanitizeArticle(article) ==
  [article EXCEPT
     !.title = Stripped(article.title, Str(<<"U","n","t","i","t","l","e","d">>)),
     !.description = Stripped(article.description, Str(<<>>)),
     !.content = Stripped(article.content, Str(<<>>)),
     !.url = Stripped(article.url, Str(<<"#">>)),
     !.imageUrl = Stripped(article.imageUrl, NULL),
     !.author = Stripped(article.author, NULL)]

(***************************************************************************)
(* The news service (src/src/services/newsService.js)                      *)
(*                                                                         *)
(* params objects are sequences of properties [name, value] in their own   *)
(* order; the cache is a function from the keys it has to its entries; a   *)
(* promise is a record with a status and a value.                          *)
(***************************************************************************)
MaxCalls == 1

Property(name, value) == [name |-> name, value |-> value]

PropertyNames(object) == {object[i].name : i \in 1..Len(object)}

IsDefined(property) == property.value.t # "undefined"

\* a value as JSON.stringify writes it
JsonValue(value) ==
  CASE value.t = "string" -> <<"\"">> \o value.s \o <<"\"">>
    [] value.t = "number" -> value.s
    [] OTHER -> <<"n","u","l","l">>

RECURSIVE JsonMembers(_)
JsonMembers(properties) ==
  IF properties = <<>> THEN <<>>
  ELSE LET member == <<"\"">> \o Head(properties).name \o <<"\"", ":">>
                       \o JsonValue(Head(properties).value)
       IN IF Len(properties) = 1 THEN member
          ELSE member \o <<",">> \o JsonMembers(Tail(properties))

\* JSON.stringify(params): properties whose value is undefined are left out
JsonStringify(params) == <<"{">> \o JsonMembers(SelectSeq(params, IsDefined)) \o <<"}">>

\* the template literals of lines 17 and 55
cacheKey(provider, params) == provider \o <<"-">> \o JsonStringify(params)

FiveMinutes == 5 * 60 * 1000

\* exactly five minutes old still counts as fresh
IsFreshAtFiveMinutes(cached, clock) == clock - cached.timestamp <= FiveMinutes

\* Date.now() - cached.timestamp < 5 * 60 * 1000
IsFresh(cached, clock) == clock - cached.timestamp < FiveMinutes

\* cache.has(key)
Has(map, key) == key \in DOMAIN map

\* cache.set(key, entry)
Set(map, key, entry) ==
  [k \in DOMAIN map \cup {key} |-> IF k = key THEN entry ELSE map[k]]

\* the object spread {...defaults, ...params}
Spread(defaults, params) ==
  LET given(name) == CHOOSE i \in 1..Len(params) :
                       /\ params[i].name = name
                       /\ \A j \in (i + 1)..Len(params) : params[j].name # name
      kept == [i \in 1..Len(defaults) |->
                 IF defaults[i].name \in PropertyNames(params)
                 THEN params[given(defaults[i].name)] ELSE defaults[i]]
      IsNew(property) == property.name \notin PropertyNames(defaults)
  IN kept \o SelectSeq(params, IsNew)

GuardianDefaults ==
  <<Property(<<"a","p","i","-","k","e","y">>, Str(<<"G","U","A","R","D","I","A","N","_","A","P","I","_","K","E","Y">>)),
    Property(<<"s","h","o","w","-","f","i","e","l","d","s">>, Str(<<"t","h","u","m","b","n","a","i","l",",","t","r","a","i","l","T","e","x","t",",","h","e","a","d","l","i","n","e">>)),
    Property(<<"s","h","o","w","-","t","a","g","s">>, Str(<<"c","o","n","t","r","i","b","u","t","o","r">>)),
    Property(<<"p","a","g","e","-","s","i","z","e">>, Num(10))>>

NewsAPIDefaults ==
  <<Property(<<"a","p","i","K","e","y">>, Str(<<"N","E","W","S","_","A","P","I","_","K","E","Y">>)), Property(<<"c","o","u","n","t","r","y">>, Str(<<"u","s">>)),
    Property(<<"p","a","g","e","S","i","z","e">>, Num(10))>>

ValueOf(params, name) ==
  IF name \in PropertyNames(params)
  THEN params[CHOOSE i \in 1..Len(params) :
                /\ params[i].name = name
                /\ \A j \in (i + 1)..Len(params) : params[j].name # name].value
  ELSE UNDEF

\* the request axios.get sends: undefined parameters are not serialized
GuardianRequest(params) ==
  [provider |-> GUARDIAN, url |-> <<"h","t","t","p","s",":","/","/","c","o","n","t","e","n","t",".","g","u","a","r","d","i","a","n","a","p","i","s",".","c","o","m","/","s","e","a","r","c","h">>,
   params |-> SelectSeq(Spread(GuardianDefaults, params), IsDefined)]

NewsAPIRequest(params) ==
  [provider |-> NEWSAPI,
   url |-> <<"h","t","t","p","s",":","/","/","n","e","w","s","a","p","i",".","o","r","g","/","v","2">>
             \o (IF Truthy(ValueOf(params, <<"q">>)) THEN <<"/","e","v","e","r","y","t","h","i","n","g">> ELSE <<"/","t","o","p","-","h","e","a","d","l","i","n","e","s">>),
   params |-> SelectSeq(Spread(NewsAPIDefaults, params), IsDefined)]

RequestOf(provider, params) ==
  IF provider = GUARDIAN THEN GuardianRequest(params) ELSE NewsAPIRequest(params)

\* a promise
NoPromise == [status |-> "none"]

Pending == [status |-> "pending"]

Fulfilled(value) == [status |-> "fulfilled", value |-> value]

Rejected(error) == [status |-> "rejected", value |-> error]

IsSettled(promise) == promise.status \in {"fulfilled", "rejected"}

\* one call of fetchFromGuardian or fetchFromNewsAPI: its arguments, the
\* entry it read from the cache, the request it sent and its promise
NoFetch ==
  [provider |-> <<>>, params |-> <<>>, calledAt |-> 0, cached |-> [found |-> FALSE],
   requested |-> FALSE, promise |-> NoPromise]

\* the synchronous part of fetchFromGuardian / fetchFromNewsAPI (lines 17-27,
\* 55-67): the cached data, or a request in flight
Fetch(provider, params, map, clock) ==
  LET key == cacheKey(provider, params)
      cached == IF Has(map, key)
                THEN [found |-> TRUE, data |-> map[key].data, timestamp |-> map[key].timestamp]
                ELSE [found |-> FALSE]
      served == cached.found /\ IsFresh(cached, clock)
  IN [provider |-> provider, params |-> params, calledAt |-> clock, cached |-> cached,
      requested |-> ~served,
      promise |-> IF served THEN Fulfilled(cached.data) ELSE Pending]

\* the articles of fetchAllNews: one shape for both providers, the
\* properties an article does not have are undefined
NewsArticle ==
  [id |-> UNDEF, title |-> UNDEF, description |-> UNDEF, content |-> UNDEF, url |-> UNDEF,
   imageUrl |-> UNDEF, publishedAt |-> UNDEF, category |-> UNDEF, author |-> UNDEF]

\* lines 105-115
FromGuardian(article) ==
  [NewsArticle EXCEPT
     !.id = article.id, !.title = article.webTitle,
     !.description = Or(article.fields.trailText, Str(<<>>)),
     !.content = article.fields.trailText, !.url = article.webUrl,
     !.imageUrl = article.fields.thumbnail, !.publishedAt = article.webPublicationDate,
     !.category = article.sectionName]

\* lines 121-131
FromNewsAPI(article) ==
  [NewsArticle EXCEPT
     !.id = article.url, !.title = article.title, !.description = article.description,
     !.content = article.content, !.url = article.url, !.imageUrl = article.urlToImage,
     !.publishedAt = article.publishedAt, !.author = article.author]

\* the data of a provider: its list of articles, when it has one
DataOf(request, listed, items) == [about |-> request, listed |-> listed, items |-> items]

\* guardianData.status === 'fulfilled' && guardianData.value.results
GuardianArticles(settled) ==
  IF settled.status = "fulfilled" /\ settled.value.listed
  THEN [i \in 1..Len(settled.value.items) |-> FromGuardian(settled.value.items[i])]
  ELSE <<>>

\* the second provider left out of the result
NoArticles(settled) == <<>>

\* newsAPIData.status === 'fulfilled' && newsAPIData.value.articles
NewsAPIArticles(settled) ==
  IF settled.status = "fulfilled" /\ settled.value.listed
  THEN [i \in 1..Len(settled.value.items) |-> FromNewsAPI(settled.value.items[i])]
  ELSE <<>>

\* the values fetchAllNews can return for the two settled promises (lines
\* 101-142)
fetchAllNewsReturns(guardianData, newsAPIData, page) ==
  {[articles |-> sorted, totalResults |-> Len(sorted), currentPage |-> page] :
     sorted \in SortOutcomes(GuardianArticles(guardianData) \o NewsAPIArticles(newsAPIData))}

\* the arguments of the two fetches of fetchAllNews (lines 95-98)
GuardianParams(searchTerm, page) ==
  <<Property(<<"q">>, IF searchTerm # <<>> THEN Str(searchTerm) ELSE UNDEF),
    Property(<<"p","a","g","e">>, Num(page))>>

NewsAPIParams(searchTerm, page, category) ==
  <<Property(<<"q">>, IF searchTerm # <<>> THEN Str(searchTerm) ELSE Str(<<"l","a","t","e","s","t">>)),
    Property(<<"p","a","g","e">>, Num(page)),
    Property(<<"c","a","t","e","g","o","r","y">>, IF category # <<"g","e","n","e","r","a","l">> THEN Str(category) ELSE UNDEF)>>

\* a call of an exported function that has not been made
NoCall ==
  [kind |-> "none", page |-> 0, guardian |-> NoFetch, newsapi |-> NoFetch, promise |-> NoPromise]

(***************************************************************************)
(* StudyPlanner.jsx: the study timer                                       *)
(***************************************************************************)
\* the pomodoros the model lets complete
MaxPomodoros == 4

\* seconds of each timer mode
timerSettings == [pomodoro |-> 25 * 60, shortBreak |-> 5 * 60, longBreak |-> 15 * 60]

TimerModes == DOMAIN timerSettings

Tabs == {"timer", "schedule", "stats"}

\* the component's fibers carry no update lanes / some: React runs the updater
\* of a setState call when the call is made only in the first case, and while
\* it renders the component otherwise
NoLanes == "NoLanes"

SomeLanes == "SomeLanes"

\* a render that changes no state leaves both fibers without lanes, a render
\* that changes state leaves the lanes of the update on the alternate fiber
LanesAfter(before, after) == IF before = after THEN NoLanes ELSE SomeLanes

\* the break a completed pomodoro switches to, as the interval callback
\* computes it from the count of its render
BreakAfter(count) == IF (count + 1) % 4 = 0 THEN "longBreak" ELSE "shortBreak"

\* the state hooks of the timer
TimerState(mode, running, paused, left, count) ==
  [timerMode |-> mode, timerRunning |-> running, timerPaused |-> paused,
   timeLeft |-> left, pomodoroCount |-> count]

InitialTimer == TimerState("pomodoro", FALSE, FALSE, 25 * 60, 0)

\* the updates setTimeLeft's updater makes when the countdown has finished
\* (lines 90-111): the nested setTimeLeft of the break is queued while the
\* updater runs, so it comes after the updater's result 0 when the updater
\* runs in the render, and before it when the updater runs at the call
TimerFinished(t, atCall) ==
  IF t.timerMode = "pomodoro"
    THEN [t EXCEPT !.timerRunning = FALSE,
                   !.pomodoroCount = @ + 1,
                   !.timerMode = BreakAfter(t.pomodoroCount),
                   !.timeLeft = IF atCall THEN 0
                                ELSE timerSettings[BreakAfter(t.pomodoroCount)]]
    ELSE [t EXCEPT !.timerRunning = FALSE, !.timeLeft = 0]

\* the interval callback: setTimeLeft(prev => ...)
TimerTicked(t, atCall) ==
  IF t.timeLeft <= 1 THEN TimerFinished(t, atCall)
  ELSE [t EXCEPT !.timeLeft = @ - 1]

(***************************************************************************)
(* MemoryGame.jsx: the memory game                                         *)
(***************************************************************************)
\* the pairs a game deals: the game deals 6, 8 or 12 (difficultySettings)
Pairs == 2

\* the games the model lets start
MaxGames == 2

\* the moves the model lets a game count
MaxMoves == 3

\* the seconds the model lets the game clock count
MaxGameTime == 1

\* the time bonus of the difficulty played ('easy')
TimeBonus == 100

\* the card startGame makes at position index (from 0) of
\* [...selectedEmojis, ...selectedEmojis]; an emoji is its position in the theme
NewCard(index) ==
  [id |-> index, emoji |-> index % Pairs, flipped |-> FALSE, matched |-> FALSE,
   pairId |-> index \div 2]

NewCards == [i \in 1..(2 * Pairs) |-> NewCard(i - 1)]

\* orders Math.random lets shuffleArray leave: as dealt, reversed, and the
\* two cards of each emoji side by side
AsDealt == [i \in 1..(2 * Pairs) |-> i]

Reversed == [i \in 1..(2 * Pairs) |-> 2 * Pairs + 1 - i]

SideBySide == [i \in 1..(2 * Pairs) |-> ((i - 1) % 2) * Pairs + ((i - 1) \div 2) + 1]

Orders == {AsDealt, Reversed, SideBySide}

shuffleArray(array) == {[i \in DOMAIN array |-> array[order[i]]] : order \in Orders}

\* the state of the game: decks holds the card objects of every deck dealt
\* (the arrays setCards is given are copies that share them), cards is the
\* deck the cards state refers to (0: the empty array it starts with), and
\* timeouts are the pending 800 ms timers of checkMatch, oldest first.
\* Positions count from 1.
InitialGame ==
  [gameState |-> "menu", decks |-> <<>>, cards |-> 0, flippedIndices |-> <<>>,
   matchedPairs |-> <<>>, moves |-> 0, score |-> 0, time |-> 0, timerActive |-> FALSE,
   timeouts |-> <<>>]

CardsOf(g) == IF g.cards = 0 THEN <<>> ELSE g.decks[g.cards]

\* card objects that nothing refers to any more are dropped
Referred(g, deck) == g.cards = deck \/ \E k \in DOMAIN g.timeouts : g.timeouts[k].cards = deck

Collected(g) ==
  [g EXCEPT !.decks = [deck \in DOMAIN g.decks |->
                         IF Referred(g, deck) THEN g.decks[deck] ELSE <<>>]]

startGameWith(g, gameCards) ==
  [g EXCEPT !.decks = Append(@, gameCards),
            !.cards = Len(g.decks) + 1,
            !.flippedIndices = <<>>,
            !.matchedPairs = <<>>,
            !.moves = 0,
            !.score = 0,
            !.time = 0,
            !.gameState = "playing",
            !.timerActive = TRUE]

\* the clicks handleCardClick returns from at once (lines 179-186)
ClickIgnoredByCardOnly(g, index) ==
  \/ g.gameState # "playing"
  \/ CardsOf(g)[index].flipped
  \/ CardsOf(g)[index].matched

ClickIgnored(g, index) ==
  \/ g.gameState # "playing"
  \/ CardsOf(g)[index].flipped
  \/ CardsOf(g)[index].matched
  \/ Len(g.flippedIndices) = 2

gameComplete(g) == [g EXCEPT !.timerActive = FALSE, !.gameState = "completed"]

\* checkMatch as called from the render g, h being g with the updates that
\* handleCardClick has made before the call
checkMatch(g, h, index1, index2) ==
  LET card1 == h.decks[g.cards][index1]
      card2 == h.decks[g.cards][index2]
      timeBonus == Max(0, TimeBonus - (g.time \div 10))
      movePenalty == g.moves * 5
      pairScore == 100 + timeBonus - movePenalty
      matched ==
        [h EXCEPT !.decks[g.cards][index1].matched = TRUE,
                  !.decks[g.cards][index2].matched = TRUE,
                  !.cards = g.cards,
                  !.matchedPairs = Append(@, card1.pairId),
                  !.flippedIndices = <<>>,
                  !.score = Max(0, @ + pairScore)]
  IN  IF card1.emoji = card2.emoji
        THEN IF Len(g.matchedPairs) + 1 = Pairs THEN gameComplete(matched) ELSE matched
        ELSE [h EXCEPT !.timeouts =
                Append(@, [cards |-> g.cards, index1 |-> index1, index2 |-> index2])]

handleCardClicked(g, index) ==
  IF ClickIgnored(g, index) THEN g
  ELSE LET newFlippedIndices == Append(g.flippedIndices, index)
           flipped == [g EXCEPT !.decks[g.cards][index].flipped = TRUE,
                                !.flippedIndices = newFlippedIndices]
       IN  IF Len(newFlippedIndices) = 2
             THEN checkMatch(g, [flipped EXCEPT !.moves = @ + 1],
                             newFlippedIndices[1], newFlippedIndices[2])
             ELSE flipped

\* the callback of the oldest pending timer of checkMatch (lines 230-236)
FlippedBack(g) ==
  LET timeout == Head(g.timeouts)
  IN  [g EXCEPT !.decks[timeout.cards][timeout.index1].flipped = FALSE,
                !.decks[timeout.cards][timeout.index2].flipped = FALSE,
                !.cards = timeout.cards,
                !.flippedIndices = <<>>,
                !.timeouts = Tail(@)]

(***************************************************************************)
(* SignUp.jsx, ChessGame: the chess game against the engine                *)
(***************************************************************************)
\* the plies after which the model's game is a stalemate
MaxPlies == 3

\* the games the model lets start (startNewGame, resetGame, loadGame)
MaxChessGames == 2

\* the requests the model lets makeAIMoveRequest send
MaxRequests == 2

\* chess.js, reduced to four moves: a position is the sequence of the moves
\* played (in the engine's notation, from-square then to-square), white
\* moves at even length, the queen's capture on f7 mates, and the game is a
\* stalemate after MaxPlies plies
ChessMove(from, to, piece, captured, color) ==
  [from |-> from, to |-> to, piece |-> piece, captured |-> captured, color |-> color]

NoPiece == "undefined"

WhitePawn == ChessMove(<<"e","2">>, <<"e","4">>, "p", NoPiece, "w")

WhiteMates == ChessMove(<<"h","5">>, <<"f","7">>, "q", "p", "w")

BlackPawn == ChessMove(<<"e","7">>, <<"e","5">>, "p", NoPiece, "b")

BlackTakes == ChessMove(<<"d","8">>, <<"h","4">>, "q", "p", "b")

ChessMoves == {WhitePawn, WhiteMates, BlackPawn, BlackTakes}

StartPosition == <<>>

Turn(position) == IF Len(position) % 2 = 0 THEN "w" ELSE "b"

IsCheckmate(position) ==
  position # <<>> /\ position[Len(position)] = WhiteMates.from \o WhiteMates.to

IsStalemate(position) == ~IsCheckmate(position) /\ Len(position) >= MaxPlies

IsGameOver(position) == IsCheckmate(position) \/ IsStalemate(position)

\* game.moves()
LegalMoves(position) ==
  IF IsGameOver(position) THEN {}
  ELSE {move \in ChessMoves : move.color = Turn(position)}

\* game.move({from, to, promotion}): the legal moves it finds, none when it
\* returns null or throws
MovesFound(position, from, to) ==
  {move \in LegalMoves(position) : move.from = from /\ move.to = to}

Moved(position, move) == Append(position, move.from \o move.to)

\* the engine's 'bestmove' for a position
BestMoves(position) == {move.from \o move.to : move \in LegalMoves(position)}

NoBestMove == <<"(","n","o","n","e",")">>

\* the state of the component. chess holds the Chess objects: the first is
\* the one the game state and gameRef hold, the others are those that pending
\* timers still refer to. engine holds the positions sent to the engine and
\* not answered yet, delayed the calls of makeAIMove that onmessage has
\* scheduled, timers the pending timers of makeAIMoveRequest,
\* thinkingTimeoutRef the number of the timer made last, requested the
\* requests sent so far and started the games started so far; setGame tells,
\* while a handler runs, that it has called setGame.
NoMove == [from |-> <<>>, to |-> <<>>]

NoCaptures == [w |-> <<>>, b |-> <<>>]

InitialChess ==
  [chess |-> <<StartPosition>>, playerColor |-> "w", gameHistory |-> <<>>,
   capturedPieces |-> NoCaptures, thinking |-> FALSE, gameMode |-> "menu",
   lastMove |-> NoMove, historyStack |-> <<>>, redoStack |-> <<>>,
   engine |-> <<>>, delayed |-> <<>>, timers |-> <<>>, thinkingTimeoutRef |-> 0,
   requested |-> 0, started |-> 0, setGame |-> FALSE]

\* what the first render's closures hold: makeAIMove is called from the
\* onmessage handler installed once, by the effect of line 294
FirstRender ==
  [gameHistory |-> InitialChess.gameHistory,
   capturedPieces |-> InitialChess.capturedPieces,
   lastMove |-> InitialChess.lastMove]

\* what the closures of the render of c hold
Render(c) ==
  [gameHistory |-> c.gameHistory, capturedPieces |-> c.capturedPieces,
   lastMove |-> c.lastMove]


\* the state object saveToHistory, handleUndo, handleRedo and makeAIMove build
Snapshot(fen, render) ==
  [fen |-> fen, history |-> render.gameHistory,
   capturedPieces |-> render.capturedPieces, lastMove |-> render.lastMove]

\* setGame(new Chess(...)): a new object takes the first place
SetGame(c, position) ==
  [c EXCEPT !.chess = <<position>> \o c.chess,
            !.timers = [k \in DOMAIN c.timers |->
                          [c.timers[k] EXCEPT !.game = c.timers[k].game + 1]],
            !.setGame = TRUE]

\* the objects that nothing refers to any more are dropped
Live(c) == {1} \cup {c.timers[k].game : k \in DOMAIN c.timers}

Rank(c, object) == Cardinality({o \in Live(c) : o <= object})

Compact(c) ==
  [c EXCEPT !.chess = [n \in 1..Cardinality(Live(c)) |->
                         c.chess[CHOOSE o \in Live(c) : Rank(c, o) = n]],
            !.timers = [k \in DOMAIN c.timers |->
                          [c.timers[k] EXCEPT !.game = Rank(c, c.timers[k].game)]]]

\* clearTimeout(thinkingTimeoutRef.current)
ClearTimeout(c) ==
  [c EXCEPT !.timers = SelectSeq(@, LAMBDA timer : timer.id # c.thinkingTimeoutRef)]

\* makeAIMoveRequest (lines 630-656)
makeAIMoveRequest(c) ==
  [c EXCEPT !.thinking = TRUE,
            !.engine = Append(@, [fen |-> c.chess[1], started |-> c.started]),
            !.timers = Append(@, [id |-> c.requested + 1, game |-> 1,
                                  gameHistory |-> c.gameHistory,
                                  capturedPieces |-> c.capturedPieces,
                                  lastMove |-> c.lastMove,
                                  fen |-> c.chess[1], started |-> c.started]),
            !.thinkingTimeoutRef = c.requested + 1,
            !.requested = @ + 1]

\* the effect of line 410 is to request a move
AITurn(c) ==
  /\ c.gameMode = "playing"
  /\ ~c.thinking
  /\ Turn(c.chess[1]) # c.playerColor
  /\ ~IsGameOver(c.chess[1])

\* updateGameStatus, run by the effect of line 403 for a new game object
updateGameStatus(c) ==
  IF IsCheckmate(c.chess[1]) \/ IsStalemate(c.chess[1])
    THEN [c EXCEPT !.gameMode = "gameover"]
    ELSE c

\* the effects that follow the render of what a handler has set
Effects(c) ==
  LET status == IF c.setGame THEN updateGameStatus(c) ELSE c
      asked == IF AITurn(status) THEN makeAIMoveRequest(status) ELSE status
  IN  Compact([asked EXCEPT !.setGame = FALSE])

CapturedAfter(c, render, move) ==
  IF move.captured = NoPiece THEN c.capturedPieces
  ELSE LET capturedColor == IF move.color = "w" THEN "b" ELSE "w"
       IN  [render.capturedPieces EXCEPT
              ![capturedColor] = Append(@, [type |-> move.captured, color |-> capturedColor])]

saveToHistoryKeepingRedo(c, render, object) ==
  [c EXCEPT !.historyStack = Append(@, Snapshot(c.chess[object], render))]

\* saveToHistory (lines 500-510): game is the object the move was made on
saveToHistory(c, render, object) ==
  [c EXCEPT !.historyStack = Append(@, Snapshot(c.chess[object], render)),
            !.redoStack = <<>>]

\* makeMove (lines 513-549) in the render whose closures are render, for a
\* move already made on the Chess object
makeMove(c, render, object, move) ==
  SetGame([saveToHistory(c, render, object) EXCEPT
                    !.capturedPieces = CapturedAfter(c, render, move),
                    !.lastMove = [from |-> move.from, to |-> move.to],
                    !.gameHistory = Append(@, move)],
          c.chess[object])

\* handleSquareClick on the square to, with the square from selected
handleSquareClicked(c, from, to) ==
  IF c.gameMode # "playing" \/ c.thinking \/ c.playerColor # Turn(c.chess[1]) THEN c
  ELSE IF MovesFound(c.chess[1], from, to) = {} THEN c
  ELSE LET move == CHOOSE found \in MovesFound(c.chess[1], from, to) : TRUE
       IN  makeMove([c EXCEPT !.chess[1] = Moved(@, move)], Render(c), 1, move)

UndoRefused(c) ==
  \/ c.gameMode # "playing" /\ c.gameMode # "gameover"
  \/ c.thinking
  \/ Len(c.historyStack) = 0

handleUndone(c) ==
  IF UndoRefused(c) THEN c
  ELSE LET currentState == Snapshot(c.chess[1], Render(c))
           previousState == c.historyStack[Len(c.historyStack)]
       IN  ClearTimeout(
             SetGame([c EXCEPT !.gameHistory = previousState.history,
                               !.capturedPieces = previousState.capturedPieces,
                               !.lastMove = previousState.lastMove,
                               !.historyStack = SubSeq(@, 1, Len(@) - 1),
                               !.redoStack = Append(@, currentState),
                               !.thinking = FALSE],
                     previousState.fen))

RedoRefusedWhenEmpty(c) == Len(c.redoStack) = 0

RedoRefused(c) == Len(c.redoStack) = 0 \/ c.thinking

handleRedone(c) ==
  IF RedoRefused(c) THEN c
  ELSE LET redoState == c.redoStack[Len(c.redoStack)]
           currentState == Snapshot(c.chess[1], Render(c))
       IN  SetGame([c EXCEPT !.gameHistory = redoState.history,
                             !.capturedPieces = redoState.capturedPieces,
                             !.lastMove = redoState.lastMove,
                             !.redoStack = SubSeq(@, 1, Len(@) - 1),
                             !.historyStack = Append(@, currentState)],
                   redoState.fen)

\* stockfishWorker.onmessage for the answer to the oldest request (lines 296-315)
Answered(c, bestMove) ==
  LET request == Head(c.engine)
      rest == [c EXCEPT !.engine = Tail(@)]
  IN  IF bestMove # NoBestMove
        THEN [ClearTimeout(rest) EXCEPT
                !.delayed = Append(@, [bestMove |-> bestMove, fen |-> request.fen,
                                       started |-> request.started])]
        ELSE [rest EXCEPT !.thinking = FALSE]

\* makeAIMove (lines 659-730), called 100 ms after the answer
makeAIMoved(c, moveString) ==
  LET cleared == ClearTimeout(c)
      from == SubSeq(moveString, 1, 2)
      to == SubSeq(moveString, 3, 4)
      found == MovesFound(c.chess[1], from, to)
  IN  IF found = {} THEN [cleared EXCEPT !.thinking = FALSE]
      ELSE LET move == CHOOSE legal \in found : TRUE
               beforeState == Snapshot(c.chess[1], FirstRender)
           IN  SetGame([cleared EXCEPT
                          !.chess[1] = Moved(@, move),
                          !.historyStack = Append(@, beforeState),
                          !.redoStack = <<>>,
                          !.capturedPieces = CapturedAfter(c, FirstRender, move),
                          !.lastMove = [from |-> move.from, to |-> move.to],
                          !.gameHistory = Append(@, move),
                          !.thinking = FALSE],
                       Moved(c.chess[1], move))

\* the callback of the oldest pending timer of makeAIMoveRequest (lines
\* 639-654), randomMove being the move Math.random picks
TimedOut(c, randomMove) ==
  LET timer == Head(c.timers)
      rest == [c EXCEPT !.timers = Tail(@), !.thinking = FALSE]
  IN  IF randomMove \notin LegalMoves(c.chess[timer.game]) THEN rest
      ELSE makeMove([rest EXCEPT !.chess[timer.game] = Moved(@, randomMove)],
                    timer, timer.game, randomMove)

startNewGameAs(c, color) ==
  SetGame([c EXCEPT !.playerColor = color,
                    !.gameHistory = <<>>,
                    !.capturedPieces = NoCaptures,
                    !.lastMove = NoMove,
                    !.gameMode = "playing",
                    !.thinking = FALSE,
                    !.historyStack = <<>>,
                    !.redoStack = <<>>,
                    !.started = @ + 1],
          StartPosition)

resetGameOf(c) == startNewGameAs(c, c.playerColor)

\* a saved game: after 1. e4, the player being black
SavedGame ==
  [fen |-> <<WhitePawn.from \o WhitePawn.to>>, history |-> <<WhitePawn>>,
   playerColor |-> "b", capturedPieces |-> NoCaptures,
   lastMove |-> [from |-> WhitePawn.from, to |-> WhitePawn.to]]

loadGameOf(c, savedGame) ==
  SetGame([c EXCEPT !.gameHistory = savedGame.history,
                    !.playerColor = savedGame.playerColor,
                    !.capturedPieces = savedGame.capturedPieces,
                    !.lastMove = savedGame.lastMove,
                    !.gameMode = "playing",
                    !.historyStack = <<>>,
                    !.redoStack = <<>>,
                    !.started = @ + 1],
          savedGame.fen)

\* what the undo and redo claims speak of: position, move list, captured
\* pieces and last move
ViewOf(c) == <<c.chess[1], c.gameHistory, c.capturedPieces, c.lastMove>>

(***************************************************************************)
(* State                                                                   *)
(***************************************************************************)
VARIABLES
  buffer,      \* whether the global Buffer exists (Node.js) or not (a browser)
  now,         \* the wall clock, in milliseconds into the model's second
  op,          \* the exported function called last, "none" before any call
  threw,       \* whether that call threw past its boundary
  articles,    \* the articles argument of the last normalize call
  sourceId,    \* its sourceId argument
  normalized,  \* the records it returned
  articlesArray, \* the argument of mergeAndDeduplicateArticles: batches of records
  merged,      \* the array mergeAndDeduplicateArticles returned
  arg,         \* the first argument of the last call of another exported function
  arg2,        \* its second argument, "none" without one
  result,      \* what that call returned, null when it threw
  passed,      \* the argument of the last call as it was when the call began
  earlier,     \* what an earlier call with the same arguments returned
  time,        \* Date.now() as the news service reads it, in milliseconds
  cache,       \* the Map of the news service: key -> {data, timestamp}
  calls,       \* the calls of the news service that are under way
  timerMode,   \* StudyPlanner: 'pomodoro', 'shortBreak' or 'longBreak'
  timerRunning, \* StudyPlanner: the countdown runs
  timerPaused, \* StudyPlanner: the countdown was paused
  timeLeft,    \* StudyPlanner: seconds left on the timer
  pomodoroCount, \* StudyPlanner: pomodoros completed
  activeTab,   \* StudyPlanner: the tab shown
  lanes,       \* StudyPlanner: whether React has update lanes left on the component
  gameState,   \* MemoryGame: 'menu', 'playing' or 'completed'
  decks,       \* MemoryGame: the card objects of every deck dealt
  cards,       \* MemoryGame: the deck the cards state holds, 0 for the initial []
  flippedIndices, \* MemoryGame: positions of the cards turned in this move
  matchedPairs, \* MemoryGame: pairIds of the pairs found
  moves,       \* MemoryGame: the move counter
  score,       \* MemoryGame: the score
  gameTime,    \* MemoryGame: the time state, seconds played
  timerActive, \* MemoryGame: the game clock runs
  timeouts,    \* MemoryGame: pending flip-back timers of checkMatch, oldest first
  clicked,     \* MemoryGame: the last card click since the deal: "none", "ignored", "flipped"
  chess,       \* ChessGame: the Chess objects, the one of the game state first
  playerColor, \* ChessGame: 'w' or 'b'
  gameHistory, \* ChessGame: the move list
  capturedPieces, \* ChessGame: the captured pieces of each colour
  thinking,    \* ChessGame: the engine has been asked for a move
  gameMode,    \* ChessGame: 'menu', 'playing' or 'gameover'
  lastMove,    \* ChessGame: the last-move marker
  historyStack, \* ChessGame: the undo stack
  redoStack,   \* ChessGame: the redo stack
  engine,      \* ChessGame: positions sent to the engine and not answered yet
  delayed,     \* ChessGame: calls of makeAIMove scheduled by onmessage
  timers,      \* ChessGame: pending timers of makeAIMoveRequest, oldest first
  thinkingTimeoutRef, \* ChessGame: the number of the timer made last, 0 for null
  requested,   \* ChessGame: the requests sent so far
  started,     \* ChessGame: the games started so far
  chessOp,     \* ChessGame: what the last step did
  prior        \* ChessGame: position, move list, captured pieces and last move before it

vars ==
  <<buffer, now, op, threw, articles, sourceId, normalized, articlesArray, merged, arg, arg2,
    result, passed, earlier, time, cache, calls,
    timerMode, timerRunning, timerPaused, timeLeft, pomodoroCount, activeTab, lanes,
    gameState, decks, cards, flippedIndices, matchedPairs, moves, score, gameTime,
    timerActive, timeouts, clicked,
    chess, playerColor, gameHistory, capturedPieces, thinking, gameMode, lastMove,
    historyStack, redoStack, engine, delayed, timers, thinkingTimeoutRef, requested,
    started, chessOp, prior>>

normVars == <<articles, sourceId, normalized>>

mergeVars == <<articlesArray, merged>>

callVars == <<arg, arg2, result>>

normalizerVars ==
  <<buffer, now, op, threw, normVars, mergeVars, callVars, passed, earlier>>

newsVars == <<time, cache, calls>>

timerVars ==
  <<timerMode, timerRunning, timerPaused, timeLeft, pomodoroCount, activeTab, lanes>>

memoryVars ==
  <<gameState, decks, cards, flippedIndices, matchedPairs, moves, score, gameTime,
    timerActive, timeouts, clicked>>

chessVars ==
  <<chess, playerColor, gameHistory, capturedPieces, thinking, gameMode, lastMove,
    historyStack, redoStack, engine, delayed, timers, thinkingTimeoutRef, requested,
    started, chessOp, prior>>

\* the state of the other modules of the application
pageVars == <<newsVars, timerVars, memoryVars, chessVars>>

\* all but the state of the news service
besideNews == <<normalizerVars, timerVars, memoryVars, chessVars>>

\* all but the state of the study timer
besideTimer == <<normalizerVars, newsVars, memoryVars, chessVars>>

\* all but the state of the memory game
besideMemory == <<normalizerVars, newsVars, timerVars, chessVars>>

\* all but the state of the chess game
besideChess == <<normalizerVars, newsVars, timerVars, memoryVars>>

(***************************************************************************)
(* Inputs of the normaliser calls                                          *)
(***************************************************************************)
MaxClock == 1

MaxBatchLen == 2

DateEarly == Str(<<"2","0","2","4","-","0","3","-","1","3","T","1","0",":","0","0",":","0","0","Z">>)

DateLate == Str(<<"2","0","2","4","-","0","3","-","1","3","T","1","1",":","0","0",":","0","0","Z">>)

ElevenPositive == <<"g","o","o","d"," ","g","r","e","a","t"," ","b","e","s","t"," ","w","i","n"," ","l","o","v","e"," ","h","a","p","p","y"," ","g","o","o","d"," ","g","o","o","d"," ","g","o","o","d"," ","g","o","o","d"," ","g","o","o","d">>

TwelveNegative == <<"b","a","d"," ","w","a","r"," ","d","e","a","t","h"," ","c","r","i","s","i","s"," ","s","a","d"," ","h","a","t","e"," ","b","a","d"," ","b","a","d"," ","b","a","d"," ","b","a","d"," ","b","a","d"," ","b","a","d">>

GuardianFull ==
  [EmptyObject EXCEPT
     !.id = Str(<<"w","o","r","l","d","/","1">>), !.webTitle = Str(<<"G","r","e","a","t"," ","E","l","e","c","t","i","o","n"," ","W","i","n">>),
     !.webUrl = Str(<<"h","t","t","p","s",":","/","/","g",".","c","o","/","1">>), !.webPublicationDate = DateEarly,
     !.sectionName = Str(<<"W","o","r","l","d">>),
     !.fields = [trailText |-> Str(<<"a"," ","g","o","o","d"," ","w","i","n">>), body |-> UNDEF,
                 headline |-> Str(<<"H","e","a","d">>), thumbnail |-> Str(<<"h","t","t","p","s",":","/","/","g",".","c","o","/","i",".","j","p","g">>)],
     !.tags = TagArray(<<Tag(Str(<<"k","e","y","w","o","r","d">>), Str(<<>>)),
                         Tag(Str(<<"c","o","n","t","r","i","b","u","t","o","r">>), Str(<<"A","n","n">>))>>)]

\* fields.body is a number: the sentiment step of normalizeArticles throws
GuardianBodyNumber ==
  [EmptyObject EXCEPT
     !.id = Str(<<"w","o","r","l","d","/","2">>), !.webTitle = Str(<<"T","i","t","l","e">>),
     !.fields = [NoFields EXCEPT !.trailText = Str(<<"t","e","x","t">>), !.body = Num(5)]]

\* webTitle is a number: the transformer's own try block throws
GuardianTitleNumber == [EmptyObject EXCEPT !.id = Str(<<"w","o","r","l","d","/","3">>), !.webTitle = Num(7)]

GuardianNullTag ==
  [EmptyObject EXCEPT !.webTitle = Str(<<"T","a","g","g","e","d">>), !.tags = TagArray(<<NullTag>>)]

GuardianPositive ==
  [EmptyObject EXCEPT
     !.webTitle = Str(<<"H","a","p","p","y"," ","D","a","y","s">>), !.sectionName = Str(<<>>),
     !.fields = [NoFields EXCEPT !.trailText = Str(ElevenPositive)]]

GuardianNegative ==
  [EmptyObject EXCEPT
     !.id = Str(<<"w","o","r","l","d","/","4">>), !.webTitle = Str(<<"C","r","i","s","i","s">>),
     !.fields = [NoFields EXCEPT !.trailText = Str(<<"s","h","o","r","t">>), !.body = Str(TwelveNegative)]]

NewsFull ==
  [EmptyObject EXCEPT
     !.title = Str(<<"T","e","s","t"," ","N","e","w","s","A","P","I"," ","A","r","t","i","c","l","e">>),
     !.description = Str(<<"G","o","o","d"," ","B","A","D"," ","g","o","o","d",","," ","n","e","w","s">>),
     !.content = Str(<<"F","u","l","l"," "," ","c","o","n","t","e","n","t","\n","h","e","r","e">>),
     !.url = Str(<<"h","t","t","p","s",":","/","/","w","w","w",".","b","b","c",".","c","o","m","/","n","e","w","s","/","1">>),
     !.urlToImage = Str(<<"h","t","t","p","s",":","/","/","e",".","c","o","/","2",".","j","p","g">>), !.publishedAt = DateLate,
     !.sourceName = Str(<<"B","B","C">>), !.author = Str(<<"J","a","n","e">>)]

NewsNoUrl ==
  [EmptyObject EXCEPT !.title = Str(<<"C","r","i","s","i","s">>), !.description = Str(<<"W","A","R"," ","a","n","d"," ","d","e","a","t","h">>)]

\* url is a number: Buffer.from rejects it
NewsUrlNumber == [EmptyObject EXCEPT !.title = Str(<<"N","u","m","b","e","r","e","d">>), !.url = Num(5)]

RawPool ==
  {NullArticle, EmptyObject, GuardianFull, GuardianBodyNumber, GuardianTitleNumber,
   GuardianNullTag, GuardianPositive, GuardianNegative, NewsFull, NewsNoUrl, NewsUrlNumber}

\* a sourceId that is no key of SOURCE_CONFIGS
REUTERS == <<"r","e","u","t","e","r","s">>

SourceIds == {GUARDIAN, NEWSAPI, REUTERS}

\* the arrays of at most n raw articles
RawLists(n) == UNION {[1..k -> RawPool] : k \in 0..n}

(***************************************************************************)
(* Actions: one per exported function                                      *)
(***************************************************************************)
InitNorm ==
  /\ buffer \in BOOLEAN
  /\ now = 0
  /\ op = "none"
  /\ threw = FALSE
  /\ articles = ArrayOf(<<>>)
  /\ sourceId = GUARDIAN
  /\ normalized = <<>>
  /\ articlesArray = <<>>
  /\ merged = <<>>
  /\ arg = NULL
  /\ arg2 = "none"
  /\ result = NULL
  /\ passed = NULL
  /\ earlier = NULL
  /\ time = 0
  /\ cache = <<>>
  /\ calls = [c \in 1..MaxCalls |-> NoCall]
  /\ timerMode = InitialTimer.timerMode
  /\ timerRunning = InitialTimer.timerRunning
  /\ timerPaused = InitialTimer.timerPaused
  /\ timeLeft = InitialTimer.timeLeft
  /\ pomodoroCount = InitialTimer.pomodoroCount
  /\ activeTab = "timer"
  /\ lanes = NoLanes
  /\ gameState = InitialGame.gameState
  /\ decks = InitialGame.decks
  /\ cards = InitialGame.cards
  /\ flippedIndices = InitialGame.flippedIndices
  /\ matchedPairs = InitialGame.matchedPairs
  /\ moves = InitialGame.moves
  /\ score = InitialGame.score
  /\ gameTime = InitialGame.time
  /\ timerActive = InitialGame.timerActive
  /\ timeouts = InitialGame.timeouts
  /\ clicked = "none"
  /\ chess = InitialChess.chess
  /\ playerColor = InitialChess.playerColor
  /\ gameHistory = InitialChess.gameHistory
  /\ capturedPieces = InitialChess.capturedPieces
  /\ thinking = InitialChess.thinking
  /\ gameMode = InitialChess.gameMode
  /\ lastMove = InitialChess.lastMove
  /\ historyStack = InitialChess.historyStack
  /\ redoStack = InitialChess.redoStack
  /\ engine = InitialChess.engine
  /\ delayed = InitialChess.delayed
  /\ timers = InitialChess.timers
  /\ thinkingTimeoutRef = InitialChess.thinkingTimeoutRef
  /\ requested = InitialChess.requested
  /\ started = InitialChess.started
  /\ chessOp = "none"
  /\ prior = ViewOf(InitialChess)

\* time passes between calls
Tick ==
  /\ op = "none"
  /\ now < MaxClock
  /\ now' = now + 1
  /\ UNCHANGED <<buffer, op, threw, normVars, mergeVars, callVars, passed, earlier, pageVars>>

CallNormalizeArticles ==
  /\ op = "none"
  /\ \E list \in RawLists(MaxBatchLen), src \in SourceIds :
       /\ passed' = ArrayOf(list)
       /\ articles' = ArgumentAfter(ArrayOf(list))
       /\ sourceId' = src
       /\ normalized' = normalizeArticles(ArrayOf(list), src, now, buffer)
  /\ op' = "normalizeArticles"
  /\ threw' = FALSE
  /\ UNCHANGED <<buffer, now, mergeVars, callVars, earlier, pageVars>>

\* normalizeArticles(x, sourceId) with x not an array
CallNormalizeArticlesNotArray ==
  /\ op = "none"
  /\ \E src \in SourceIds :
       /\ passed' = NotAnArray
       /\ articles' = ArgumentAfter(NotAnArray)
       /\ sourceId' = src
       /\ normalized' = normalizeArticles(NotAnArray, src, now, buffer)
  /\ op' = "normalizeArticles"
  /\ threw' = FALSE
  /\ UNCHANGED <<buffer, now, mergeVars, callVars, earlier, pageVars>>

CallNormalizeArticle ==
  /\ op = "none"
  /\ \E raw \in RawPool, src \in SourceIds :
       /\ passed' = ArrayOf(<<raw>>)
       /\ articles' = ArgumentAfter(ArrayOf(<<raw>>))
       /\ sourceId' = src
       /\ normalized' = <<normalizeArticle(raw, src, now, buffer)>>
  /\ op' = "normalizeArticle"
  /\ threw' = FALSE
  /\ UNCHANGED <<buffer, now, mergeVars, callVars, earlier, pageVars>>

NextNorm ==
  \/ Tick
  \/ CallNormalizeArticles
  \/ CallNormalizeArticlesNotArray
  \/ CallNormalizeArticle

SpecNorm == InitNorm /\ [][NextNorm]_vars

(***************************************************************************)
(* Properties of normalizeArticle and normalizeArticles                    *)
(***************************************************************************)
Items == articles.items

Indices == 1..Len(normalized)

NormalizeReturned == op \in {"normalizeArticles", "normalizeArticle"} /\ articles.isArray

EndsWith(s, suffix) ==
  Len(s) >= Len(suffix) /\ SubSeq(s, Len(s) - Len(suffix) + 1, Len(s)) = suffix

General == Str(<<"G","e","n","e","r","a","l">>)

\* the fallback record of the claims: safe defaults in every field
IsFallbackRecord(rec, src) ==
  /\ rec.title = Str(<<"A","r","t","i","c","l","e"," ","U","n","a","v","a","i","l","a","b","l","e">>)
  /\ rec.url = Str(<<"#">>)
  /\ rec.source.id = Str(src)
  /\ rec.categories = <<General>>
  /\ rec.normalized = [readingTime |-> 1, sentiment |-> 0, keywords |-> <<>>]

\* normalization of `raw` fails: the transformer's try block throws, or the
\* sentiment step that follows it does
ItemFails(src, raw) ==
  \/ src = GUARDIAN /\ GuardianThrows(raw)
  \/ src = NEWSAPI /\ NewsAPIThrows(raw, buffer)
  \/ LET text == SentimentText(Transform(src, raw, 0, now, buffer))
     IN Truthy(text) /\ ~IsString(text)

\* C1: for every raw input (an empty object and null included) and every
\* sourceId, known or not, normalizeArticle returns a record that
\* validateArticle accepts: id, title, url, source and publishedAt are truthy.
C1_NormalizeArticleValid ==
  op = "normalizeArticle" =>
    /\ ~threw
    /\ Len(normalized) = 1
    /\ ~validateArticleThrows(normalized[1])
    /\ validateArticle(normalized[1])
    /\ Truthy(normalized[1].id) /\ Truthy(normalized[1].title) /\ Truthy(normalized[1].url)
    /\ normalized[1].source.t = "object" /\ Truthy(normalized[1].publishedAt)

C1_Witness ==
  /\ op = "normalizeArticle"
  /\ Items = <<EmptyObject>>
  /\ sourceId = NEWSAPI
  /\ normalized[1].title = Str(<<"U","n","t","i","t","l","e","d">>)
  /\ normalized[1].url = Str(<<"#">>)
  /\ validateArticle(normalized[1])

\* output i comes from input i: either the fallback made for index i, or the
\* record carrying input i's own title and url
DerivedFrom(rec, raw, index, src) ==
  \/ /\ rec.title = Str(<<"A","r","t","i","c","l","e"," ","U","n","a","v","a","i","l","a","b","l","e">>)
     /\ EndsWith(rec.id.s, <<"-">> \o Dec(index))
  \/ /\ src = GUARDIAN
     /\ rec.title = Or(raw.webTitle, Str(<<"U","n","t","i","t","l","e","d">>))
     /\ rec.url = Or(raw.webUrl, Str(<<"#">>))
  \/ /\ src = NEWSAPI
     /\ rec.title = Or(raw.title, Str(<<"U","n","t","i","t","l","e","d">>))
     /\ rec.url = Or(raw.url, Str(<<"#">>))

\* C2: normalizeArticles(rawList, sourceId) returns exactly rawList.length
\* records, output i derived from input i, also when items make the mapper throw.
C2_OneToOne ==
  (op = "normalizeArticles" /\ articles.isArray) =>
    /\ Len(normalized) = Len(Items)
    /\ \A i \in Indices : DerivedFrom(normalized[i], Items[i], i - 1, sourceId)

C2_Witness ==
  /\ op = "normalizeArticles"
  /\ sourceId = GUARDIAN
  /\ Items = <<GuardianTitleNumber, GuardianFull>>
  /\ Len(normalized) = 2
  /\ normalized[1].title = Str(<<"A","r","t","i","c","l","e"," ","U","n","a","v","a","i","l","a","b","l","e">>)
  /\ normalized[2].title = Str(<<"G","r","e","a","t"," ","E","l","e","c","t","i","o","n"," ","W","i","n">>)

\* C3 as stated: with a known sourceId, a failing item i yields a fallback
\* record at i, and every other output j is exactly what normalizeArticle
\* returns for item j alone.
C3_OthersExactlyAsAlone ==
  (op = "normalizeArticles" /\ articles.isArray /\ HasConfig(sourceId)) =>
    \A i \in Indices :
      ItemFails(sourceId, Items[i]) =>
        /\ IsFallbackRecord(normalized[i], sourceId)
        /\ \A j \in Indices \ {i} :
             normalized[j] = normalizeArticle(Items[j], sourceId, now, buffer)

\* an id made up by the normaliser ends in the item's index: alone that index
\* is 0, in a batch it is the item's position
SameIdUpToIndex(id, aloneId, index) ==
  \/ id = aloneId
  \/ /\ EndsWith(aloneId.s, <<"-","0">>)
     /\ id.s = SubSeq(aloneId.s, 1, Len(aloneId.s) - 1) \o Dec(index)

\* the raw item carries the key its id is made from
HasStableKey(src, raw) ==
  IF src = GUARDIAN THEN Truthy(raw.id) ELSE Truthy(raw.url)

\* C3, amended: a failing item i yields a fallback record at i and the call
\* returns; every other output j has the fields item j gets when normalized
\* alone, its id included when the item has a stable key, and otherwise with
\* an id that differs only in carrying j's index in place of 0.
C3_FailureIsLocal ==
  (op = "normalizeArticles" /\ articles.isArray /\ HasConfig(sourceId)) =>
    /\ ~threw
    /\ \A i \in Indices :
         ItemFails(sourceId, Items[i]) =>
           /\ IsFallbackRecord(normalized[i], sourceId)
           /\ \A j \in Indices \ {i} :
                LET alone == normalizeArticle(Items[j], sourceId, now, buffer)
                IN /\ [normalized[j] EXCEPT !.id = alone.id] = alone
                   /\ SameIdUpToIndex(normalized[j].id, alone.id, j - 1)
                   /\ (HasStableKey(sourceId, Items[j]) /\ ~ItemFails(sourceId, Items[j]))
                        => normalized[j].id = alone.id

C3_Witness ==
  /\ op = "normalizeArticles"
  /\ sourceId = GUARDIAN
  /\ Items = <<GuardianBodyNumber, GuardianFull>>
  /\ IsFallbackRecord(normalized[1], GUARDIAN)
  /\ normalized[2] = normalizeArticle(GuardianFull, GUARDIAN, now, buffer)

\* C4 as stated: with a sourceId that is no provider key every item yields a
\* valid fallback record whose source name is the key that was passed in.
C4_NameEchoesKey ==
  (NormalizeReturned /\ ~HasConfig(sourceId)) =>
    /\ ~threw
    /\ Len(normalized) = Len(Items)
    /\ \A i \in Indices :
         /\ validateArticle(normalized[i])
         /\ normalized[i].source.name = Str(sourceId)

\* C4, amended: with a sourceId that SOURCE_CONFIGS does not resolve the call
\* returns one valid fallback record per item, whose source id and source
\* name are both the literal "unknown"; the key passed in is not kept.
C4_UnknownSourceFallback ==
  (NormalizeReturned /\ ~HasConfig(sourceId)) =>
    /\ ~threw
    /\ Len(normalized) = Len(Items)
    /\ \A i \in Indices :
         /\ validateArticle(normalized[i])
         /\ IsFallbackRecord(normalized[i], <<"u","n","k","n","o","w","n">>)
         /\ normalized[i].source.name = Str(<<"u","n","k","n","o","w","n">>)

C4_Witness ==
  /\ op = "normalizeArticles"
  /\ sourceId = REUTERS
  /\ Items = <<GuardianFull, NewsFull>>
  /\ Len(normalized) = 2
  /\ normalized[2].source.name = Str(<<"u","n","k","n","o","w","n">>)

PositiveHits(words) == Cardinality({i \in 1..Len(words) : words[i] \in positiveWords})

NegativeHits(words) == Cardinality({i \in 1..Len(words) : words[i] \in negativeWords})

\* the balance of lexicon hits in the text the sentiment is taken from:
\* content, or description when content is empty
HitBalance(rec) ==
  LET text == IF rec.content.s # <<>> THEN rec.content.s ELSE rec.description.s
      words == SplitWs(ToLowerCase(text))
  IN PositiveHits(words) - NegativeHits(words)

\* C9: every record returned by normalizeArticles or normalizeArticle has a
\* sentiment in [-1, 1] (counted in tenths: -10..10), which is 0.1 per
\* positive hit minus 0.1 per negative hit, clamped to that range.
C9_SentimentClamped ==
  NormalizeReturned =>
    \A i \in Indices :
      /\ normalized[i].normalized.sentiment \in -10..10
      /\ IsString(normalized[i].content)
      /\ normalized[i].normalized.sentiment =
           (IF HitBalance(normalized[i]) > 10 THEN 10
            ELSE IF HitBalance(normalized[i]) < -10 THEN -10
            ELSE HitBalance(normalized[i]))

C9_Witness ==
  /\ op = "normalizeArticles"
  /\ sourceId = GUARDIAN
  /\ Items = <<GuardianPositive, GuardianNegative>>
  /\ HitBalance(normalized[1]) = 11 /\ normalized[1].normalized.sentiment = 10
  /\ HitBalance(normalized[2]) = -12 /\ normalized[2].normalized.sentiment = -10

NoBlank(list) == \A k \in 1..Len(list) : list[k].t = "string" /\ list[k].s # <<>>

\* C10: every record returned by normalizeArticles has at least one category
\* and no blank (empty) category, "General" when the provider gives no
\* section and exactly <<"General">> for newsapi, and no blank tag.
C10_CategoriesAndTags ==
  (op = "normalizeArticles" /\ articles.isArray) =>
    \A i \in Indices :
      /\ Len(normalized[i].categories) >= 1
      /\ NoBlank(normalized[i].categories)
      /\ NoBlank(normalized[i].tags)
      /\ sourceId = NEWSAPI => normalized[i].categories = <<General>>
      /\ (sourceId = GUARDIAN /\ ~Truthy(Items[i].sectionName))
           => normalized[i].categories = <<General>>

C10_Witness ==
  /\ op = "normalizeArticles"
  /\ sourceId = GUARDIAN
  /\ Items = <<GuardianFull, GuardianPositive>>
  /\ normalized[1].categories = <<Str(<<"W","o","r","l","d">>)>>
  /\ normalized[1].tags = <<Str(<<"A","n","n">>)>>
  /\ normalized[2].categories = <<General>>

(***************************************************************************)
(* The pipeline of testNormalization: one batch per provider, then merge   *)
(***************************************************************************)
MaxUnordered == 3

DateEarlyMs == Str(<<"2","0","2","4","-","0","3","-","1","3","T","1","0",":","0","0",":","0","0",".","0","0","0","Z">>)

NewsSecond ==
  [EmptyObject EXCEPT
     !.title = Str(<<"S","e","c","o","n","d"," ","s","t","o","r","y">>), !.description = Str(<<"m","o","r","e"," ","n","e","w","s">>),
     !.url = Str(<<"h","t","t","p","s",":","/","/","w","w","w",".","b","b","c",".","c","o","m","/","n","e","w","s","/","2">>), !.publishedAt = DateEarlyMs]

\* the story GuardianFull links to, as the other provider lists it
NewsSameUrl ==
  [EmptyObject EXCEPT
     !.title = Str(<<"E","l","e","c","t","i","o","n">>), !.url = Str(<<"h","t","t","p","s",":","/","/","g",".","c","o","/","1">>), !.publishedAt = DateLate]

NewsBadDate ==
  [EmptyObject EXCEPT
     !.title = Str(<<"U","n","d","a","t","e","d">>), !.url = Str(<<"h","t","t","p","s",":","/","/","c","n","n",".","c","o","m","/","a">>),
     !.publishedAt = Str(<<"s","o","o","n">>)]

GuardianMergePool == {GuardianFull, NullArticle}

NewsMergePool == {NewsFull, NewsSecond, NewsSameUrl, NewsBadDate}

MergeLists(pool, n) == UNION {[1..k -> pool] : k \in 0..n}

InitMerge == InitNorm

\* time passes before and between the two normalizeArticles calls
TickMerge ==
  /\ op \in {"none", "normalizeArticles"}
  /\ Len(articlesArray) < 2
  /\ now < MaxClock
  /\ now' = now + 1
  /\ UNCHANGED <<buffer, op, threw, normVars, mergeVars, callVars, passed, earlier, pageVars>>

\* normalizeArticles(mockGuardianResponse.response.results, 'guardian')
NormalizeGuardianBatch ==
  /\ articlesArray = <<>>
  /\ \E list \in MergeLists(GuardianMergePool, MaxBatchLen) :
       /\ passed' = ArrayOf(list)
       /\ articles' = ArgumentAfter(ArrayOf(list))
       /\ normalized' = normalizeArticles(ArrayOf(list), GUARDIAN, now, buffer)
       /\ articlesArray' = <<normalizeArticles(ArrayOf(list), GUARDIAN, now, buffer)>>
  /\ sourceId' = GUARDIAN
  /\ op' = "normalizeArticles"
  /\ threw' = FALSE
  /\ UNCHANGED <<buffer, now, merged, callVars, earlier, pageVars>>

\* normalizeArticles(mockNewsAPIResponse.articles, 'newsapi')
NormalizeNewsAPIBatch ==
  /\ Len(articlesArray) = 1
  /\ \E list \in MergeLists(NewsMergePool, MaxBatchLen) :
       /\ passed' = ArrayOf(list)
       /\ articles' = ArgumentAfter(ArrayOf(list))
       /\ normalized' = normalizeArticles(ArrayOf(list), NEWSAPI, now, buffer)
       /\ articlesArray' =
            Append(articlesArray, normalizeArticles(ArrayOf(list), NEWSAPI, now, buffer))
  /\ sourceId' = NEWSAPI
  /\ op' = "normalizeArticles"
  /\ threw' = FALSE
  /\ UNCHANGED <<buffer, now, merged, callVars, earlier, pageVars>>

\* mergeAndDeduplicateArticles([guardianNormalized, newsAPINormalized]); the
\* implementation-defined orders are explored for up to MaxUnordered articles
CallMerge ==
  /\ op = "normalizeArticles"
  /\ Len(articlesArray) = 2
  /\ \/ mergeAndDeduplicateArticlesThrows(articlesArray)
     \/ ConsistentOrder(Dedup(Flat(articlesArray)))
     \/ Len(Dedup(Flat(articlesArray))) <= MaxUnordered
  /\ IF mergeAndDeduplicateArticlesThrows(articlesArray)
     THEN threw' = TRUE /\ merged' = <<>>
     ELSE /\ threw' = FALSE
          /\ \E outcome \in mergeAndDeduplicateArticles(articlesArray) : merged' = outcome
  /\ op' = "mergeAndDeduplicateArticles"
  /\ passed' = ArrayOf(articlesArray)
  /\ articlesArray' = ArgumentAfter(ArrayOf(articlesArray)).items
  /\ UNCHANGED <<buffer, now, normVars, callVars, earlier, pageVars>>

NextMerge ==
  \/ TickMerge
  \/ NormalizeGuardianBatch
  \/ NormalizeNewsAPIBatch
  \/ CallMerge

SpecMerge == InitMerge /\ [][NextMerge]_vars

(***************************************************************************)
(* Properties of mergeAndDeduplicateArticles                               *)
(***************************************************************************)
MergeReturned == op = "mergeAndDeduplicateArticles" /\ ~threw

\* the flattened input, in flattening order
Flattened == Flat(articlesArray)

\* the dedup key as the specification words it: the url, or
\* title + '-' + source.id when the url is '#'
KeyOf(a) ==
  IF a.url = Str(<<"#">>) THEN Str(JsToString(a.title) \o <<"-">> \o JsToString(a.source.id))
  ELSE a.url

FirstWithKey(key) ==
  CHOOSE i \in 1..Len(Flattened) :
    /\ KeyOf(Flattened[i]) = key
    /\ \A j \in 1..(i - 1) : KeyOf(Flattened[j]) # key

\* C5: the result holds exactly one article per distinct dedup key of the
\* flattened input, namely the first that carries the key in flattening
\* order, and no article that is not in the input.
C5_OnePerKeyFirstKept ==
  MergeReturned =>
    /\ \A i \in 1..Len(Flattened) :
         \E k \in 1..Len(merged) :
           /\ merged[k] = Flattened[FirstWithKey(KeyOf(Flattened[i]))]
           /\ \A other \in 1..Len(merged) :
                KeyOf(merged[other]) = KeyOf(Flattened[i]) => other = k
    /\ \A k \in 1..Len(merged) : \E i \in 1..Len(Flattened) : merged[k] = Flattened[i]
    /\ Len(merged) = Cardinality({KeyOf(Flattened[i]) : i \in 1..Len(Flattened)})

\* [[a, b], [b', c]] with b and b' sharing a url: three articles, b kept
C5_Witness ==
  /\ MergeReturned
  /\ Len(articlesArray[1]) = 2 /\ Len(articlesArray[2]) = 2
  /\ articlesArray[1][2].url = articlesArray[2][1].url
  /\ articlesArray[1][2].url # Str(<<"#">>)
  /\ articlesArray[1][2] # articlesArray[2][1]
  /\ Len(merged) = 3
  /\ \E k \in 1..3 : merged[k] = articlesArray[1][2]
  /\ \A k \in 1..3 : merged[k] # articlesArray[2][1]

\* C6: no two distinct articles of the merged output have the same id.
C6_UniqueIds ==
  MergeReturned =>
    \A i, j \in 1..Len(merged) : i # j => merged[i].id # merged[j].id

AllParseable == \A i \in 1..Len(Flattened) : ~DateOf(Flattened[i].publishedAt).nan

\* a is not older than b
NotOlder(a, b) ==
  LET ta == DateOf(a.publishedAt)
      tb == DateOf(b.publishedAt)
  IN ta.sec > tb.sec \/ (ta.sec = tb.sec /\ ta.ms >= tb.ms)

\* C7: when every article has a parseable publishedAt the output is ordered
\* newest first: of two adjacent articles the earlier is not the older.
C7_NewestFirst ==
  (MergeReturned /\ AllParseable) =>
    \A k \in 1..(Len(merged) - 1) : NotOlder(merged[k], merged[k + 1])

\* three dates, given oldest first, come out newest first
C7_Witness ==
  /\ MergeReturned
  /\ AllParseable
  /\ Len(Flattened) = 3 /\ Len(merged) = 3
  /\ ~NotOlder(Flattened[1], Flattened[2]) /\ ~NotOlder(Flattened[2], Flattened[3])
  /\ merged = <<Flattened[3], Flattened[2], Flattened[1]>>

(***************************************************************************)
(* Direct calls of every exported function, also on malformed input        *)
(***************************************************************************)
SixtyOne == [i \in 1..61 |-> "a"]

\* unified articles as the normalizer gives them for the articles of
\* testNormalization
ArticleGuardian ==
  [t |-> "object",
   id |-> Str(<<"w","o","r","l","d","/","2","0","2","4","/","m","a","r","/","1","3","/","t","e","s","t","-","a","r","t","i","c","l","e">>),
   title |-> Str(<<"T","e","s","t"," ","G","u","a","r","d","i","a","n"," ","A","r","t","i","c","l","e">>),
   description |-> Str(<<"T","h","i","s"," ","i","s"," ","a"," ","t","e","s","t"," ","d","e","s","c","r","i","p","t","i","o","n">>),
   content |-> Str(<<"T","h","i","s"," ","i","s"," ","t","h","e"," ","b","o","d","y"," ","t","e","x","t"," ","o","f"," ","t","h","e"," ","a","r","t","i","c","l","e">>),
   url |-> Str(<<"h","t","t","p","s",":","/","/","g",".","c","o","/","1">>),
   imageUrl |-> Str(<<"h","t","t","p","s",":","/","/","g",".","c","o","/","i",".","j","p","g">>),
   source |-> [t |-> "object", id |-> Str(GUARDIAN), name |-> Str(<<"T","h","e"," ","G","u","a","r","d","i","a","n">>)],
   author |-> Str(<<"J","o","h","n"," ","D","o","e">>),
   publishedAt |-> DateEarly,
   categories |-> <<Str(<<"W","o","r","l","d">>)>>,
   tags |-> <<Str(<<"P","o","l","i","t","i","c","s">>), Str(<<"E","u","r","o","p","e">>)>>,
   normalized |-> [readingTime |-> 1, sentiment |-> 0,
                   keywords |-> <<<<"t","e","s","t">>, <<"g","u","a","r","d","i","a","n">>, <<"a","r","t","i","c","l","e">>>>],
   absent |-> {}]

ArticleNews ==
  [t |-> "object",
   id |-> Str(<<"n","e","w","s","a","p","i","-","a","H","R","0","c","H","M","6","L","y","9","3","d","3","c","u","Y","m","J","j">>),
   title |-> Str(<<"T","e","s","t"," ","N","e","w","s","A","P","I"," ","A","r","t","i","c","l","e">>),
   description |-> Str(<<"G","r","e","a","t"," ","n","e","w","s",":"," ","a"," ","w","i","n">>),
   content |-> Str(<<"G","r","e","a","t"," ","n","e","w","s",":"," ","a"," ","w","i","n"," ","f","o","r"," ","t","h","e"," ","b","e","s","t"," ","t","e","a","m">>),
   url |-> Str(<<"h","t","t","p","s",":","/","/","w","w","w",".","b","b","c",".","c","o","m","/","n","e","w","s","/","1">>),
   imageUrl |-> NULL,
   source |-> [t |-> "object", id |-> Str(NEWSAPI), name |-> Str(<<"B","B","C"," ","N","e","w","s">>)],
   author |-> NULL,
   publishedAt |-> DateLate,
   categories |-> <<Str(<<"G","e","n","e","r","a","l">>)>>,
   tags |-> <<>>,
   normalized |-> [readingTime |-> 1, sentiment |-> 3,
                   keywords |-> <<<<"t","e","s","t">>, <<"n","e","w","s","a","p","i">>, <<"a","r","t","i","c","l","e">>>>],
   absent |-> {}]

ArticleMarkup ==
  [ArticleNews EXCEPT
     !.title = Str(<<"<","s","c","r","i","p","t",">","x","<","/","s","c","r","i","p","t",">">>), !.description = Str(<<"<",">">>),
     !.categories = <<Str(<<"W","o","r","l","d">>), Str(<<"P","o","l","i","t","i","c","s">>)>>]

ArticleLongTitle ==
  [ArticleGuardian EXCEPT
     !.title = Str(SixtyOne), !.publishedAt = Str(<<"2","0","2","4","-","0","3","-","0","1","T","1","2",":","0","0",":","0","0","Z">>)]

\* null or undefined in the place of an article
ArticleNull == [ArticleNews EXCEPT !.t = "null"]

\* an object without title, source, categories, tags or normalized
ArticleBare ==
  [ArticleGuardian EXCEPT
     !.title = UNDEF, !.source = [t |-> "undefined", id |-> UNDEF, name |-> UNDEF],
     !.absent = {"categories", "tags", "normalized"}]

ArticleTitleNumber == [ArticleNews EXCEPT !.title = Num(5)]

\* a keyword made of digits
ArticleYear ==
  [ArticleGuardian EXCEPT
     !.title = Str(<<"E","l","e","c","t","i","o","n"," ","2","0","2","4"," ","r","e","s","u","l","t","s">>),
     !.normalized.keywords = <<<<"e","l","e","c","t","i","o","n">>, <<"2","0","2","4">>, <<"r","e","s","u","l","t","s">>, <<"e","l","e","c","t","i","o","n">>>>]

\* a title of angle brackets only, and a category that names a property of
\* Object.prototype
ArticleOddNames ==
  [ArticleNews EXCEPT !.title = Str(<<"<",">">>), !.categories = <<Str(<<"c","o","n","s","t","r","u","c","t","o","r">>)>>]

\* the article arguments: records of the normalizer, and what a caller can
\* pass in their place
ArticlePool(clock) ==
  {ArticleGuardian, ArticleNews, createFallbackArticle(GUARDIAN, 0, clock), ArticleMarkup,
   ArticleLongTitle, ArticleNull, ArticleBare, ArticleTitleNumber, ArticleYear, ArticleOddNames}

ArticleLists(clock) == UNION {[1..k -> ArticlePool(clock)] : k \in 0..MaxBatchLen}

ArrayArguments(clock) == {ArrayOf(list) : list \in ArticleLists(clock)} \cup {NotAnArray}

\* articles whose title and description are at and just over the budgets of
\* the card view
ArticleAtBudget ==
  [ArticleGuardian EXCEPT
     !.title = Str([i \in 1..60 |-> "t"]), !.description = Str([i \in 1..120 |-> "d"])]

ArticleOverBudget ==
  [ArticleGuardian EXCEPT
     !.title = Str([i \in 1..61 |-> IF i <= 57 THEN "t" ELSE "u"]),
     !.description = Str([i \in 1..121 |-> IF i <= 117 THEN "d" ELSE "e"])]

ViewArticles(clock) == ArticlePool(clock) \cup {ArticleAtBudget, ArticleOverBudget}

ViewTypes == {"card", "detailed", "minimal", "list"}

Limits == {1, 10}

InitCalls == InitNorm

TickCalls ==
  /\ op = "none"
  /\ now < MaxClock
  /\ now' = now + 1
  /\ UNCHANGED <<buffer, op, threw, normVars, mergeVars, callVars, passed, earlier, pageVars>>

CallValidateArticle ==
  /\ op = "none"
  /\ \E article \in ArticlePool(now) :
       /\ passed' = article
       /\ arg' = ArgumentAfter(article)
       /\ threw' = validateArticleThrows(article)
       /\ result' = IF validateArticleThrows(article) THEN NULL ELSE validateArticle(article)
  /\ arg2' = "none"
  /\ op' = "validateArticle"
  /\ UNCHANGED <<buffer, now, normVars, mergeVars, earlier, pageVars>>

CallSanitizeArticle ==
  /\ op = "none"
  /\ \E article \in ArticlePool(now) :
       /\ passed' = article
       /\ arg' = ArgumentAfter(article)
       /\ threw' = sanitizeArticleThrows(article)
       /\ result' = IF sanitizeArticleThrows(article) THEN NULL ELSE sanitizeArticle(article)
  /\ arg2' = "none"
  /\ op' = "sanitizeArticle"
  /\ UNCHANGED <<buffer, now, normVars, mergeVars, earlier, pageVars>>

CallCalculateQualityScore ==
  /\ op = "none"
  /\ \E article \in ArticlePool(now) :
       /\ passed' = article
       /\ arg' = ArgumentAfter(article)
       /\ threw' = calculateQualityScoreThrows(article)
       /\ result' = IF calculateQualityScoreThrows(article) THEN NULL
                    ELSE calculateQualityScore(article)
  /\ arg2' = "none"
  /\ op' = "calculateQualityScore"
  /\ UNCHANGED <<buffer, now, normVars, mergeVars, earlier, pageVars>>

CallFormatArticleForView ==
  /\ op = "none"
  /\ \E article \in ViewArticles(now), viewType \in ViewTypes :
       /\ passed' = article
       /\ arg' = ArgumentAfter(article)
       /\ arg2' = viewType
       /\ threw' = formatArticleForViewThrows(article, viewType)
       /\ result' = IF formatArticleForViewThrows(article, viewType) THEN NULL
                    ELSE formatArticleForView(article, viewType, now)
  /\ op' = "formatArticleForView"
  /\ UNCHANGED <<buffer, now, normVars, mergeVars, earlier, pageVars>>

\* articles.forEach throws unless articles is an array
CallGroupByCategory ==
  /\ op = "none"
  /\ \E list \in ArrayArguments(now) :
       /\ passed' = list
       /\ arg' = ArgumentAfter(list)
       /\ threw' = (~list.isArray \/ groupByCategoryThrows(list.items))
       /\ result' = IF ~list.isArray \/ groupByCategoryThrows(list.items) THEN NULL
                    ELSE groupByCategory(list.items)
  /\ arg2' = "none"
  /\ op' = "groupByCategory"
  /\ UNCHANGED <<buffer, now, normVars, mergeVars, earlier, pageVars>>

CallExtractTrendingTopics ==
  /\ op = "none"
  /\ \E list \in ArrayArguments(now), limit \in Limits :
       /\ passed' = list
       /\ arg' = ArgumentAfter(list)
       /\ arg2' = limit
       /\ threw' = (~list.isArray \/ extractTrendingTopicsThrows(list.items))
       /\ IF ~list.isArray \/ extractTrendingTopicsThrows(list.items) THEN result' = NULL
          ELSE \E outcome \in extractTrendingTopics(list.items, limit) : result' = outcome
  /\ op' = "extractTrendingTopics"
  /\ UNCHANGED <<buffer, now, normVars, mergeVars, earlier, pageVars>>

\* mergeAndDeduplicateArticles([articles]); articlesArray.flat() throws unless
\* articlesArray is an array
CallMergeAndDeduplicateArticles ==
  /\ op = "none"
  /\ \E list \in ArrayArguments(now) :
       LET batches == IF list.isArray THEN <<list.items>> ELSE <<>>
           throws == ~list.isArray \/ mergeAndDeduplicateArticlesThrows(batches)
       IN /\ passed' = list
          /\ arg' = ArgumentAfter(list)
          /\ articlesArray' = batches
          /\ threw' = throws
          /\ IF throws THEN merged' = <<>>
             ELSE \E outcome \in mergeAndDeduplicateArticles(batches) : merged' = outcome
  /\ arg2' = "none"
  /\ result' = NULL
  /\ op' = "mergeAndDeduplicateArticles"
  /\ UNCHANGED <<buffer, now, normVars, earlier, pageVars>>

NextCalls ==
  \/ TickCalls
  \/ CallNormalizeArticles
  \/ CallNormalizeArticlesNotArray
  \/ CallNormalizeArticle
  \/ CallValidateArticle
  \/ CallSanitizeArticle
  \/ CallCalculateQualityScore
  \/ CallFormatArticleForView
  \/ CallGroupByCategory
  \/ CallExtractTrendingTopics
  \/ CallMergeAndDeduplicateArticles

SpecCalls == InitCalls /\ [][NextCalls]_vars

\* C8 (as stated): no exported transform throws on malformed input -- no call
\* of an exported function ends with an exception past its boundary.
C8_NoExportThrows == ~threw

\* the exported normalizer entry points do hold the guarantee
C8_NormalizeNeverThrows == op \in {"normalizeArticles", "normalizeArticle"} => ~threw

(***************************************************************************)
(* calculateQualityScore on every combination of its inputs, called twice  *)
(***************************************************************************)
Names == <<Str(<<"W","o","r","l","d">>), Str(<<"P","o","l","i","t","i","c","s">>), Str(<<"E","u","r","o","p","e">>)>>

\* unified articles over the values each bonus of the score tests
QualityArticles ==
  {[ArticleGuardian EXCEPT
      !.imageUrl = image, !.author = author, !.content = Str([i \in 1..length |-> "a"]),
      !.categories = SubSeq(Names, 1, categories), !.tags = SubSeq(Names, 1, tags),
      !.normalized.sentiment = sentiment] :
     image \in {NULL, Str(<<"h","t","t","p","s",":","/","/","g",".","c","o","/","i",".","j","p","g">>)}, author \in {NULL, Str(<<"J","o","h","n"," ","D","o","e">>)},
     length \in {0, 50, 51, 201, 501}, categories \in {0, 1, 2}, tags \in {2, 3},
     sentiment \in {-10, -3, -2, 0, 10}}

InitQuality == InitNorm

\* time passes before the first call and between the two calls
TickQuality ==
  /\ op \in {"none", "calculateQualityScore"}
  /\ now < MaxClock
  /\ now' = now + 1
  /\ UNCHANGED <<buffer, op, threw, normVars, mergeVars, callVars, passed, earlier, pageVars>>

ScoreArticle ==
  /\ op = "none"
  /\ \E article \in QualityArticles :
       /\ passed' = article
       /\ arg' = ArgumentAfter(article)
       /\ threw' = calculateQualityScoreThrows(article)
       /\ result' = IF calculateQualityScoreThrows(article) THEN NULL
                    ELSE calculateQualityScore(article)
  /\ arg2' = "none"
  /\ op' = "calculateQualityScore"
  /\ UNCHANGED <<buffer, now, normVars, mergeVars, earlier, pageVars>>

\* calculateQualityScore is called again on the article of the last call
ScoreArticleAgain ==
  /\ op = "calculateQualityScore"
  /\ ~threw
  /\ earlier' = result
  /\ passed' = arg
  /\ arg' = ArgumentAfter(arg)
  /\ result' = calculateQualityScore(arg)
  /\ op' = "calculateQualityScoreAgain"
  /\ UNCHANGED <<buffer, now, threw, arg2, normVars, mergeVars, pageVars>>

NextQuality ==
  \/ TickQuality
  \/ ScoreArticle
  \/ ScoreArticleAgain

SpecQuality == InitQuality /\ [][NextQuality]_vars

\* C11: calculateQualityScore returns a value in [0, 100] for every unified
\* article, whatever its image, author, content length, category count, tag
\* count and sentiment, and a second call on the same article returns the
\* value of the first.
C11_ScoreInRangeAndRepeatable ==
  /\ op \in {"calculateQualityScore", "calculateQualityScoreAgain"} => result \in 0..100
  /\ op = "calculateQualityScoreAgain" => result = earlier

\* a second call, later than the start, on an article that earns every bonus
C11_Witness ==
  /\ op = "calculateQualityScoreAgain"
  /\ now > 0
  /\ result = 100
  /\ Truthy(arg.imageUrl) /\ Truthy(arg.author) /\ Len(arg.content.s) > 500

(***************************************************************************)
(* Claims about the presentation helpers                                   *)
(***************************************************************************)
WellFormed(list) ==
  \A i \in 1..Len(list) : list[i].t = "object" /\ list[i].absent = {}

Count(all, keyword) == Cardinality({i \in 1..Len(all) : all[i] = keyword})

FirstIndex(all, keyword) ==
  CHOOSE i \in 1..Len(all) : all[i] = keyword /\ \A j \in 1..(i - 1) : all[j] # keyword

\* a ranks before b: a higher count, or the same count and seen first
RanksBefore(all, a, b) ==
  \/ Count(all, a) > Count(all, b)
  \/ Count(all, a) = Count(all, b) /\ FirstIndex(all, a) < FirstIndex(all, b)

Min(a, b) == IF a < b THEN a ELSE b

\* C12 (as stated): extractTrendingTopics(articles, limit) returns the keywords
\* of the articles by non-increasing count, keywords of equal count in the
\* order in which they were first seen, cut to the first `limit` -- for every
\* keyword string, keywords made of digits included.
C12_ByCountThenFirstSeen ==
  (op = "extractTrendingTopics" /\ arg.isArray /\ WellFormed(arg.items)) =>
    /\ ~threw
    /\ LET all == AllKeywords(arg.items)
       IN /\ Len(result) = Min(arg2, Cardinality(Range(all)))
          /\ Range(result) \subseteq Range(all)
          /\ \A i, j \in 1..Len(result) : i < j => RanksBefore(all, result[i], result[j])
          /\ \A keyword \in Range(all) \ Range(result) :
               \A i \in 1..Len(result) : RanksBefore(all, result[i], keyword)

Carries(article, key) ==
  \E k \in 1..Len(article.categories) : JsToString(article.categories[k]) = key

CarriedNames(list) ==
  UNION {{JsToString(list[i].categories[k]) : k \in 1..Len(list[i].categories)} :
           i \in 1..Len(list)}

\* C13 (as stated): groupByCategory(articles) maps each category name to the
\* articles that carry it, in input order and once each; no key has an empty
\* list and no article is listed under a category it does not carry.
C13_GroupsAreTheCarriers ==
  (op = "groupByCategory" /\ arg.isArray /\ WellFormed(arg.items)) =>
    /\ ~threw
    /\ DOMAIN result = CarriedNames(arg.items)
    /\ \A key \in DOMAIN result :
         /\ result[key] # <<>>
         /\ result[key] = SelectSeq(arg.items, LAMBDA article : Carries(article, key))

RECURSIVE WithoutBrackets(_)
WithoutBrackets(text) ==
  IF text = <<>> THEN <<>>
  ELSE IF Head(text) \in {"<", ">"} THEN WithoutBrackets(Tail(text))
  ELSE <<Head(text)>> \o WithoutBrackets(Tail(text))

TextFieldNames == {"title", "description", "content", "url", "imageUrl", "author"}

OtherFieldsCopied(before, after) ==
  \A field \in DOMAIN before \ TextFieldNames : after[field] = before[field]

\* C14 (as stated): every text field of sanitizeArticle's result is the input
\* text with the characters < and > deleted and every other character kept in
\* order; all other fields are copied unchanged.
C14_OnlyBracketsDeleted ==
  (op = "sanitizeArticle" /\ ~threw) =>
    /\ \A field \in TextFieldNames :
         IsString(passed[field]) => result[field] = Str(WithoutBrackets(passed[field].s))
    /\ OtherFieldsCopied(passed, result)

DefaultOf(field) ==
  CASE field = "title" -> Str(<<"U","n","t","i","t","l","e","d">>)
    [] field = "url" -> Str(<<"#">>)
    [] field \in {"imageUrl", "author"} -> NULL
    [] OTHER -> Str(<<>>)

\* C14 (amended): every text field of the result is the input text with the
\* characters < and > deleted and every other character kept in order, unless
\* nothing is left of it or the field is null or undefined: then it is the
\* field's default ('Untitled' for title, '#' for url, null for imageUrl and
\* author, '' for description and content). All other fields are copied.
C14_BracketsDeletedOrDefault ==
  (op = "sanitizeArticle" /\ ~threw) =>
    /\ \A field \in TextFieldNames :
         /\ result[field] =
              IF IsString(passed[field]) /\ WithoutBrackets(passed[field].s) # <<>>
              THEN Str(WithoutBrackets(passed[field].s))
              ELSE DefaultOf(field)
         /\ IsString(result[field]) =>
              \A i \in 1..Len(result[field].s) : result[field].s[i] \notin {"<", ">"}
    /\ OtherFieldsCopied(passed, result)

\* the scenario of the title <script>x</script>, next to a description of
\* brackets only
C14_Witness ==
  /\ op = "sanitizeArticle"
  /\ ~threw
  /\ passed.title = Str(<<"<","s","c","r","i","p","t",">","x","<","/","s","c","r","i","p","t",">">>)
  /\ result.title = Str(<<"s","c","r","i","p","t","x","/","s","c","r","i","p","t">>)
  /\ passed.description = Str(<<"<",">">>)
  /\ result.description = Str(<<>>)

WordsOfA(count) == [i \in 1..(2 * count - 1) |-> IF i % 2 = 1 THEN "a" ELSE " "]

\* the payload of the round-trip scenario
GuardianScenario ==
  [EmptyObject EXCEPT
     !.webTitle = Str(<<"X">>), !.webUrl = Str(<<"h","t","t","p","s",":","/","/","g","/","1">>),
     !.webPublicationDate = Str(<<"2","0","2","4","-","0","1","-","0","1","T","0","0",":","0","0",":","0","0","Z">>),
     !.fields = [NoFields EXCEPT !.trailText = Str(<<"h","e","l","l","o"," ","w","o","r","l","d">>)]]

\* a trail text of exactly 200 words
GuardianTrail200 ==
  [GuardianScenario EXCEPT
     !.id = Str(<<"w","o","r","l","d","/","2","0","0">>), !.fields = [NoFields EXCEPT !.trailText = Str(WordsOfA(200))]]

\* a trail text of 201 words
GuardianLongTrail ==
  [GuardianScenario EXCEPT
     !.id = Str(<<"w","o","r","l","d","/","2","0","1">>), !.fields = [NoFields EXCEPT !.trailText = Str(WordsOfA(201))]]

\* a body of 201 words under a short trail text
GuardianLongBody ==
  [GuardianScenario EXCEPT
     !.id = Str(<<"w","o","r","l","d","/","b","o","d","y">>),
     !.fields = [NoFields EXCEPT !.trailText = Str(<<"h","e","l","l","o"," ","w","o","r","l","d">>), !.body = Str(WordsOfA(201))]]

\* a headline, but neither trail text nor body
GuardianHeadlineOnly ==
  [GuardianScenario EXCEPT
     !.id = Str(<<"w","o","r","l","d","/","h","e","a","d">>), !.fields = [NoFields EXCEPT !.headline = Str(<<"H","e","a","d"," ","l","i","n","e">>)]]

\* more than ten qualifying tokens, among capitals, punctuation, stop words,
\* repeats and short words
NewsKeywords ==
  [EmptyObject EXCEPT
     !.title = Str(<<"M","a","r","k","e","t","s"," ","R","A","L","L","Y"," ","w","i","t","h"," ","T","e","c","h","-","S","t","o","c","k","s",","," ","a","n","d"," ","t","h","e"," ","m","a","r","k","e","t","s"," ","w","i","n","!">>),
     !.description =
       Str(<<" "," ","I","n","v","e","s","t","o","r","s"," ","h","a","v","e"," ","s","e","e","n"," ","s","t","r","o","n","g"," ","g","r","o","w","t","h"," ","a","c","r","o","s","s"," ","s","e","v","e","r","a","l"," ","s","e","c","t","o","r","s"," ","w","o","r","l","d","w","i","d","e"," ","t","o","d","a","y"," ","a","g","a","i","n"," ","2","0","2","4">>),
     !.url = Str(<<"h","t","t","p","s",":","/","/","e",".","c","o","/","k">>), !.publishedAt = DateLate]

\* description only: no content
NewsDescriptionOnly ==
  [EmptyObject EXCEPT
     !.title = Str(<<"B","r","i","e","f">>), !.description = Str(<<"g","r","e","a","t"," ","s","u","m","m","a","r","y"," ","t","e","x","t">>),
     !.url = Str(<<"h","t","t","p","s",":","/","/","e",".","c","o","/","d">>), !.publishedAt = DateEarly]

RecordPool ==
  RawPool \cup {GuardianScenario, GuardianTrail200, GuardianLongTrail, GuardianLongBody,
                GuardianHeadlineOnly, NewsKeywords, NewsDescriptionOnly}

RecordBatchPool == {GuardianFull, EmptyObject, NewsKeywords}

RecordBatches == UNION {[1..k -> RecordBatchPool] : k \in 0..MaxBatchLen}

InitRecord == InitNorm

\* time passes before the first call and between the two calls
TickRecord ==
  /\ op \in {"none", "normalizeArticle", "normalizeArticles"}
  /\ now < MaxClock
  /\ now' = now + 1
  /\ UNCHANGED <<buffer, op, threw, normVars, mergeVars, callVars, passed, earlier, pageVars>>

NormalizeRecord ==
  /\ op = "none"
  /\ \E raw \in RecordPool, src \in SourceIds :
       /\ passed' = ArrayOf(<<raw>>)
       /\ articles' = ArgumentAfter(ArrayOf(<<raw>>))
       /\ sourceId' = src
       /\ normalized' = <<normalizeArticle(raw, src, now, buffer)>>
  /\ op' = "normalizeArticle"
  /\ threw' = FALSE
  /\ UNCHANGED <<buffer, now, mergeVars, callVars, earlier, pageVars>>

NormalizeRecords ==
  /\ op = "none"
  /\ \E list \in RecordBatches, src \in SourceIds :
       /\ passed' = ArrayOf(list)
       /\ articles' = ArgumentAfter(ArrayOf(list))
       /\ sourceId' = src
       /\ normalized' = normalizeArticles(ArrayOf(list), src, now, buffer)
  /\ op' = "normalizeArticles"
  /\ threw' = FALSE
  /\ UNCHANGED <<buffer, now, mergeVars, callVars, earlier, pageVars>>

\* normalizeArticle is called again with the arguments of the last call
NormalizeRecordAgain ==
  /\ op = "normalizeArticle"
  /\ earlier' = normalized
  /\ passed' = articles
  /\ articles' = ArgumentAfter(articles)
  /\ normalized' = <<normalizeArticle(articles.items[1], sourceId, now, buffer)>>
  /\ op' = "normalizeArticleAgain"
  /\ UNCHANGED <<buffer, now, threw, sourceId, mergeVars, callVars, pageVars>>

\* normalizeArticles is called again with the arguments of the last call
NormalizeRecordsAgain ==
  /\ op = "normalizeArticles"
  /\ earlier' = normalized
  /\ passed' = articles
  /\ articles' = ArgumentAfter(articles)
  /\ normalized' = normalizeArticles(articles, sourceId, now, buffer)
  /\ op' = "normalizeArticlesAgain"
  /\ UNCHANGED <<buffer, now, threw, sourceId, mergeVars, callVars, pageVars>>

NextRecord ==
  \/ TickRecord
  \/ NormalizeRecord
  \/ NormalizeRecords
  \/ NormalizeRecordAgain
  \/ NormalizeRecordsAgain

SpecRecord == InitRecord /\ [][NextRecord]_vars

(***************************************************************************)
(* Claims about the records                                                *)
(***************************************************************************)
IsText(value) == IsString(value) /\ value.s # <<>>

\* the words of a text: its maximal runs of characters that are no whitespace
WordStarts(text) ==
  {i \in 1..Len(text) : ~IsSpace(text[i]) /\ (i = 1 \/ IsSpace(text[i - 1]))}

\* a guardian payload in the provider's types: the transformer accepts it
GuardianPayload(raw) ==
  /\ ~GuardianThrows(raw)
  /\ raw.fields.body.t \in {"undefined", "null", "string"}
  /\ raw.fields.trailText.t \in {"undefined", "null", "string"}

\* the words of the trail text, one after another with a space between: one
\* more than it has spaces
TrailWords(raw) ==
  Cardinality({i \in 1..Len(raw.fields.trailText.s) : raw.fields.trailText.s[i] = " "}) + 1

\* C15: for a guardian payload that has webTitle, webUrl and
\* webPublicationDate, normalizeArticle(raw, 'guardian') returns a record with
\* exactly that title, url and publishedAt, with source.id 'guardian', and with
\* readingTime 1 when the trail text has at most 200 words (words separated
\* by single spaces).
C15_GuardianRoundTrip ==
  (/\ op = "normalizeArticle"
   /\ sourceId = GUARDIAN
   /\ GuardianPayload(Items[1])
   /\ IsText(Items[1].webTitle) /\ IsText(Items[1].webUrl)
   /\ IsText(Items[1].webPublicationDate)) =>
    /\ normalized[1].title = Items[1].webTitle
    /\ normalized[1].url = Items[1].webUrl
    /\ normalized[1].publishedAt = Items[1].webPublicationDate
    /\ normalized[1].source.id = Str(<<"g","u","a","r","d","i","a","n">>)
    /\ (IsText(Items[1].fields.trailText) /\ TrailWords(Items[1]) <= 200)
         => normalized[1].normalized.readingTime = 1

\* the payload whose trail text has exactly 200 words, normalized after the
\* clock has moved
C15_Witness ==
  /\ op = "normalizeArticle"
  /\ sourceId = GUARDIAN
  /\ Items = <<GuardianTrail200>>
  /\ TrailWords(Items[1]) = 200
  /\ now > 0
  /\ normalized[1].title = Str(<<"X">>)
  /\ normalized[1].publishedAt = Str(<<"2","0","2","4","-","0","1","-","0","1","T","0","0",":","0","0",":","0","0","Z">>)
  /\ normalized[1].normalized.readingTime = 1

CalledAgain == op \in {"normalizeArticleAgain", "normalizeArticlesAgain"}

\* C16 (as stated): two calls of normalizeArticle (or normalizeArticles) with
\* equal raw input and the same sourceId return equal records, whatever the
\* wall-clock time of each call and whichever fields the raw input lacks.
C16_SameRecordsAgain == CalledAgain => normalized = earlier

\* the record of `raw` reads no clock: the payload is normalized without
\* falling back and supplies its own identity and date
ClockFree(src, raw) ==
  /\ HasConfig(src)
  /\ ~ItemFails(src, raw)
  /\ src = GUARDIAN => Truthy(raw.id) /\ Truthy(raw.webPublicationDate)
  /\ src = NEWSAPI => Truthy(raw.url) /\ Truthy(raw.publishedAt)

\* C16 (amended): two calls with equal raw input and the same sourceId, in the
\* same runtime, return as many records, and equal records at every position
\* whose raw item is normalized without falling back and supplies its own
\* identity and date (guardian: id and webPublicationDate; newsapi: url and
\* publishedAt). Every other record carries the time of its call.
C16_ClockFreeRecordsAgain ==
  (CalledAgain /\ articles.isArray) =>
    /\ Len(normalized) = Len(earlier)
    /\ \A i \in Indices : ClockFree(sourceId, Items[i]) => normalized[i] = earlier[i]

\* a batch normalized twice: the record of the full payload is the same, the
\* record of the empty object is not
C16_Witness ==
  /\ op = "normalizeArticlesAgain"
  /\ sourceId = GUARDIAN
  /\ Items = <<GuardianFull, EmptyObject>>
  /\ normalized[1] = earlier[1]
  /\ normalized[1].title = Str(<<"G","r","e","a","t"," ","E","l","e","c","t","i","o","n"," ","W","i","n">>)
  /\ normalized[2] # earlier[2]

\* the provider's longer body
LongerBody(src, raw) == IF src = GUARDIAN THEN raw.fields.body ELSE raw.content

FirstCall == op \in {"normalizeArticle", "normalizeArticles"} /\ articles.isArray /\ HasConfig(sourceId)

\* C18: for every record produced from a payload of either provider (no
\* fallback record), content is the provider's longer body (guardian
\* fields.body, newsapi content) when that is present, and otherwise equals
\* the record's own description.
C18_ContentElseDescription ==
  FirstCall =>
    \A i \in Indices :
      ~ItemFails(sourceId, Items[i]) =>
        IF IsText(LongerBody(sourceId, Items[i]))
        THEN normalized[i].content = LongerBody(sourceId, Items[i])
        ELSE normalized[i].content = normalized[i].description

\* C19: for every record produced from either provider,
\* normalized.readingTime is max(1, ceil(w / 200)), w the word count of the
\* record's content, or of its description when content is empty (words
\* counted as the code counts them, by String.prototype.split(' ')).
C19_ReadingTimeOfContent ==
  FirstCall =>
    \A i \in Indices :
      LET text == IF normalized[i].content.s # <<>> THEN normalized[i].content.s
                  ELSE normalized[i].description.s
      IN normalized[i].normalized.readingTime = Max(1, CeilDiv(Len(SplitSpace(text)), 200))

\* the tokens of a text, in order: its words after lowercasing and deleting
\* every character that is neither a word character nor whitespace
TokenAt(text, start) ==
  LET stop == CHOOSE j \in start..Len(text) :
                /\ \A k \in start..j : ~IsSpace(text[k])
                /\ j = Len(text) \/ IsSpace(text[j + 1])
  IN SubSeq(text, start, stop)

RECURSIVE TokensFrom(_, _)
TokensFrom(text, starts) ==
  IF starts = {} THEN <<>>
  ELSE LET first == CHOOSE i \in starts : \A j \in starts : i <= j
       IN <<TokenAt(text, first)>> \o TokensFrom(text, starts \ {first})

Qualifies(token) ==
  /\ Len(token) > 3
  /\ token \notin {<<"t","h","e">>, <<"a">>, <<"a","n">>, <<"a","n","d">>, <<"o","r">>, <<"b","u","t">>, <<"i","n">>, <<"o","n">>, <<"a","t">>, <<"t","o">>,
                   <<"f","o","r">>, <<"o","f">>, <<"w","i","t","h">>, <<"b","y">>}

QualifyingTokens(text) ==
  LET clean == SelectSeq(ToLowerCase(text), KeepsWordOrSpace)
  IN SelectSeq(TokensFrom(clean, WordStarts(clean)), Qualifies)

\* the text the keywords of a record are taken from
KeywordText(src, raw) ==
  IF src = GUARDIAN THEN JsToString(Or(raw.webTitle, Str(<<>>)))
  ELSE JsToString(Or(raw.title, Str(<<>>))) \o <<" ">> \o JsToString(Or(raw.description, Str(<<>>)))

\* C20: normalized.keywords of every record has at most 10 entries, each
\* lowercase, free of non-word characters, longer than 3 characters and no
\* stop-word; they are the first 10 qualifying tokens of the source text in
\* their original order, repeats kept (a fallback record has none).
C20_FirstTenQualifyingTokens ==
  FirstCall =>
    \A i \in Indices :
      LET keywords == normalized[i].normalized.keywords
      IN /\ Len(keywords) <= 10
         /\ \A k \in 1..Len(keywords) :
              /\ Len(keywords[k]) > 3
              /\ keywords[k] \notin stopWords
              /\ \A c \in 1..Len(keywords[k]) :
                   keywords[k][c] \in Range(Lower) \cup Range(Digits) \cup {"_"}
         /\ keywords =
              IF ItemFails(sourceId, Items[i]) THEN <<>>
              ELSE SliceTo(QualifyingTokens(KeywordText(sourceId, Items[i])), 10)

\* a text with more than ten qualifying tokens, the first ten of them kept,
\* a repeat among them
C20_Witness ==
  /\ op = "normalizeArticle"
  /\ sourceId = NEWSAPI
  /\ Items = <<NewsKeywords>>
  /\ ~ItemFails(sourceId, Items[1])
  /\ Len(QualifyingTokens(KeywordText(sourceId, Items[1]))) > 10
  /\ Len(normalized[1].normalized.keywords) = 10
  /\ normalized[1].normalized.keywords[1] = <<"m","a","r","k","e","t","s">>
  /\ normalized[1].normalized.keywords[4] = <<"m","a","r","k","e","t","s">>

(***************************************************************************)
(* Claims about the views                                                  *)
(***************************************************************************)
\* the first `count` characters of a text followed by three dots
CutWithDots(text, count) == [i \in 1..(count + 3) |-> IF i <= count THEN text[i] ELSE "."]

\* the text shown for `value` within `budget` characters
Shown(value, budget) ==
  IF Len(value.s) <= budget THEN value ELSE Str(CutWithDots(value.s, budget - 3))

\* C21: formatArticleForView(article, 'card') yields a displayTitle of at most
\* 60 characters and a displayDescription of at most 120 characters: a title
\* of length <= 60 (description <= 120) is passed through unchanged, a longer
\* one becomes its first 57 (117) characters followed by '...'; an
\* unrecognised viewType returns the article unchanged.
C21_CardBudgets ==
  (op = "formatArticleForView" /\ ~threw) =>
    /\ (arg2 = "card" /\ IsString(passed.title)) =>
         /\ Len(result.displayTitle.s) <= 60
         /\ result.displayTitle = Shown(passed.title, 60)
    /\ (arg2 = "card" /\ IsString(passed.description)) =>
         /\ Len(result.displayDescription.s) <= 120
         /\ result.displayDescription = Shown(passed.description, 120)
    /\ arg2 \notin {"card", "detailed", "minimal"} => result = passed

\* the card of an article with a title of 61 and a description of 121
\* characters
C21_Witness ==
  /\ op = "formatArticleForView"
  /\ ~threw
  /\ arg2 = "card"
  /\ Len(passed.title.s) = 61
  /\ Len(passed.description.s) = 121
  /\ Len(result.displayTitle.s) = 60
  /\ Len(result.displayDescription.s) = 120
  /\ result.displayTitle.s[57] = "t"
  /\ result.displayTitle.s[58] = "."

(***************************************************************************)
(* The news service: calls, replies and failures in any order              *)
(***************************************************************************)
MaxTime == 600000

\* the instants the clock is read at: just before and at five minutes after 0
Times == {0, FiveMinutes - 1, FiveMinutes, MaxTime}

PageOnly == <<Property(<<"p","a","g","e">>, Num(1))>>

\* two objects with the same defined properties
ParamsPool == {PageOnly, GuardianParams(<<>>, 1)}

SearchTerms == {<<>>}

NetworkError == [message |-> "Network Error"]

\* response.data.response of a guardian reply
GuardianData(request) == {DataOf(request, TRUE, <<GuardianFull>>), DataOf(request, FALSE, <<>>)}

\* response.data of a newsapi reply
NewsAPIData(request) ==
  {DataOf(request, TRUE, <<NewsSecond, NewsFull>>), DataOf(request, FALSE, <<>>)}

\* what the promise of a call becomes once its fetches stand as in `call`:
\* fetchAllNews goes on when both have settled (Promise.allSettled, line 94),
\* the two fetch functions return or rethrow (lines 45-48, 84-87)
Outcomes(call) ==
  CASE call.kind = "fetchFromGuardian" -> {call.guardian.promise}
    [] call.kind = "fetchFromNewsAPI" -> {call.newsapi.promise}
    [] OTHER ->
         IF IsSettled(call.guardian.promise) /\ IsSettled(call.newsapi.promise)
         THEN {Fulfilled(returned) :
                 returned \in fetchAllNewsReturns(call.guardian.promise, call.newsapi.promise,
                                                  call.page)}
         ELSE {Pending}

Proceed(c, call) ==
  \E promise \in Outcomes(call) : calls' = [calls EXCEPT ![c] = [call EXCEPT !.promise = promise]]

InitNews == InitNorm /\ buffer

\* time passes
TickNews ==
  /\ \E later \in Times : later > time /\ time' = later
  /\ UNCHANGED <<besideNews, cache, calls>>

CallFetchFromGuardian(c) ==
  /\ calls[c].kind = "none"
  /\ \E params \in ParamsPool :
       Proceed(c, [NoCall EXCEPT !.kind = "fetchFromGuardian",
                                 !.guardian = Fetch(GUARDIAN, params, cache, time)])
  /\ UNCHANGED <<besideNews, time, cache>>

CallFetchFromNewsAPI(c) ==
  /\ calls[c].kind = "none"
  /\ \E params \in ParamsPool :
       Proceed(c, [NoCall EXCEPT !.kind = "fetchFromNewsAPI",
                                 !.newsapi = Fetch(NEWSAPI, params, cache, time)])
  /\ UNCHANGED <<besideNews, time, cache>>

CallFetchAllNews(c) ==
  /\ calls[c].kind = "none"
  /\ \E searchTerm \in SearchTerms :
       Proceed(c, [NoCall EXCEPT
                     !.kind = "fetchAllNews", !.page = 1,
                     !.guardian = Fetch(GUARDIAN, GuardianParams(searchTerm, 1), cache, time),
                     !.newsapi = Fetch(NEWSAPI, NewsAPIParams(searchTerm, 1, <<"g","e","n","e","r","a","l">>),
                                       cache, time)])
  /\ UNCHANGED <<besideNews, time, cache>>

\* the guardian request of call c is answered (lines 37-45)
GuardianResponds(c) ==
  /\ calls[c].guardian.promise.status = "pending"
  /\ \E data \in GuardianData(GuardianRequest(calls[c].guardian.params)) :
       /\ cache' = Set(cache, cacheKey(GUARDIAN, calls[c].guardian.params),
                       [data |-> data, timestamp |-> time])
       /\ Proceed(c, [calls[c] EXCEPT !.guardian.promise = Fulfilled(data)])
  /\ UNCHANGED <<besideNews, time>>

\* the newsapi request of call c is answered (lines 76-84)
NewsAPIResponds(c) ==
  /\ calls[c].newsapi.promise.status = "pending"
  /\ \E data \in NewsAPIData(NewsAPIRequest(calls[c].newsapi.params)) :
       /\ cache' = Set(cache, cacheKey(NEWSAPI, calls[c].newsapi.params),
                       [data |-> data, timestamp |-> time])
       /\ Proceed(c, [calls[c] EXCEPT !.newsapi.promise = Fulfilled(data)])
  /\ UNCHANGED <<besideNews, time>>

\* the guardian request of call c fails: the error is logged and thrown again
\* (lines 46-48)
GuardianFails(c) ==
  /\ calls[c].guardian.promise.status = "pending"
  /\ Proceed(c, [calls[c] EXCEPT !.guardian.promise = Rejected(NetworkError)])
  /\ UNCHANGED <<besideNews, time, cache>>

\* the newsapi request of call c fails (lines 85-87)
NewsAPIFails(c) ==
  /\ calls[c].newsapi.promise.status = "pending"
  /\ Proceed(c, [calls[c] EXCEPT !.newsapi.promise = Rejected(NetworkError)])
  /\ UNCHANGED <<besideNews, time, cache>>

\* the caller has its result: the call is over
Done(c) ==
  /\ IsSettled(calls[c].promise)
  /\ calls' = [calls EXCEPT ![c] = NoCall]
  /\ UNCHANGED <<besideNews, time, cache>>

NextNews ==
  \/ TickNews
  \/ \E c \in 1..MaxCalls :
       \/ CallFetchFromGuardian(c)
       \/ CallFetchFromNewsAPI(c)
       \/ CallFetchAllNews(c)
       \/ GuardianResponds(c)
       \/ NewsAPIResponds(c)
       \/ GuardianFails(c)
       \/ NewsAPIFails(c)
       \/ Done(c)

SpecNews == InitNews /\ [][NextNews]_vars

(***************************************************************************)
(* Claims about the news service                                           *)
(***************************************************************************)
Occurs(x, list) == Cardinality({i \in 1..Len(list) : list[i] = x})

\* what identifies a provider's article in the result of fetchAllNews
Listed(provider, article) ==
  IF provider = GUARDIAN
  THEN <<article.id, article.webTitle, article.webUrl, article.webPublicationDate>>
  ELSE <<article.url, article.title, article.url, article.publishedAt>>

Returned(article) == <<article.id, article.title, article.url, article.publishedAt>>

\* the articles of a fetch that succeeded, none of a fetch that failed
ArticlesOf(fetch) ==
  IF fetch.promise.status = "fulfilled" /\ fetch.promise.value.listed
  THEN [i \in 1..Len(fetch.promise.value.items) |->
          Listed(fetch.provider, fetch.promise.value.items[i])]
  ELSE <<>>

\* C22: fetchAllNews settles its two provider fetches independently: in
\* whichever order they complete, if one fetch fails and the other succeeds
\* the result contains exactly the successful provider's articles, if both
\* fail the result is an empty list and no exception is raised, and
\* totalResults always equals the number of returned articles.
C22_SettledIndependently ==
  \A c \in 1..MaxCalls :
    calls[c].kind = "fetchAllNews" =>
      /\ calls[c].promise.status # "rejected"
      /\ (IsSettled(calls[c].guardian.promise) /\ IsSettled(calls[c].newsapi.promise))
           => calls[c].promise.status = "fulfilled"
      /\ calls[c].promise.status = "fulfilled" =>
           LET returned == calls[c].promise.value
               got == [i \in 1..Len(returned.articles) |-> Returned(returned.articles[i])]
               expected == ArticlesOf(calls[c].guardian) \o ArticlesOf(calls[c].newsapi)
           IN /\ returned.totalResults = Len(returned.articles)
              /\ Len(got) = Len(expected)
              /\ \A i \in 1..Len(expected) : Occurs(expected[i], got) = Occurs(expected[i], expected)
              /\ (/\ calls[c].guardian.promise.status = "rejected"
                  /\ calls[c].newsapi.promise.status = "rejected") => returned.articles = <<>>

\* the guardian fetch has failed, the newsapi fetch has brought two articles:
\* the result is those two
C22_Witness ==
  \E c \in 1..MaxCalls :
    /\ calls[c].kind = "fetchAllNews"
    /\ calls[c].guardian.promise.status = "rejected"
    /\ calls[c].newsapi.promise.status = "fulfilled"
    /\ calls[c].newsapi.requested
    /\ calls[c].promise.status = "fulfilled"
    /\ calls[c].promise.value.totalResults = 2
    /\ calls[c].promise.value.articles[1].id = NewsFull.url

Fetches == {<<c, field>> : c \in 1..MaxCalls, field \in {"guardian", "newsapi"}}

Started(fetch) == fetch.promise.status # "none"

\* a fetch that was answered from the cache got an entry of its own provider
\* and params, stored less than five minutes before the call; a fetch that
\* found no such entry sent a request
ServedOnlyFresh ==
  \A f \in Fetches :
    LET fetch == calls[f[1]][f[2]]
    IN Started(fetch) =>
         /\ ~fetch.requested =>
              /\ fetch.cached.found
              /\ fetch.cached.timestamp <= fetch.calledAt
              /\ fetch.calledAt - fetch.cached.timestamp < 300000
              /\ fetch.cached.data.about = RequestOf(fetch.provider, fetch.params)
              /\ fetch.promise = Fulfilled(fetch.cached.data)
         /\ (~fetch.cached.found \/ fetch.calledAt - fetch.cached.timestamp >= 300000)
              => fetch.requested /\ fetch.promise.status # "none"

\* the answer to a request is stored as the entry of the request's key and
\* returned; a failure leaves the cache as it is and is passed on
StoredOnlyOnSuccess ==
  \A f \in Fetches :
    LET before == calls[f[1]][f[2]]
        after == calls'[f[1]][f[2]]
        key == cacheKey(before.provider, before.params)
    IN before.promise.status = "pending" =>
         /\ after.promise.status = "fulfilled" =>
              /\ key \in DOMAIN cache'
              /\ cache'[key] = [data |-> after.promise.value, timestamp |-> time]
              /\ after.promise.value.about = RequestOf(before.provider, before.params)
         /\ after.promise.status = "rejected" =>
              /\ cache' = cache
              /\ calls[f[1]].kind # "fetchAllNews" => calls'[f[1]].promise = after.promise

\* C27: the cache of fetchFromGuardian and fetchFromNewsAPI serves an entry
\* only if it was stored for the same provider and the same params less than
\* 5 minutes before the call; a missing or expired entry always leads to a
\* request whose successful response replaces the entry; a failed request
\* writes nothing to the cache and propagates the error.
C27_CacheServesFreshOnly == []ServedOnlyFresh /\ [][StoredOnlyOnSuccess]_vars

\* one call answered from an entry that was a millisecond short of five
\* minutes old
C27_Witness ==
  \E f \in Fetches :
    /\ Started(calls[f[1]][f[2]])
    /\ ~calls[f[1]][f[2]].requested
    /\ calls[f[1]][f[2]].calledAt - calls[f[1]][f[2]].cached.timestamp = 299999
    /\ calls[f[1]][f[2]].promise.status = "fulfilled"

(***************************************************************************)
(* The study timer of StudyPlanner.jsx                                     *)
(***************************************************************************)
Timer == TimerState(timerMode, timerRunning, timerPaused, timeLeft, pomodoroCount)

\* React renders the component with the state the handler has set
Renders(t, tab) ==
  /\ timerMode' = t.timerMode
  /\ timerRunning' = t.timerRunning
  /\ timerPaused' = t.timerPaused
  /\ timeLeft' = t.timeLeft
  /\ pomodoroCount' = t.pomodoroCount
  /\ activeTab' = tab
  /\ lanes' = LanesAfter(<<Timer, activeTab>>, <<t, tab>>)
  /\ UNCHANGED besideTimer

InitTimer == InitNorm /\ buffer

\* the Start button, shown on the timer tab while the timer neither runs nor is paused
startTimer ==
  /\ activeTab = "timer"
  /\ ~timerRunning /\ ~timerPaused
  /\ Renders([Timer EXCEPT !.timerRunning = TRUE, !.timerPaused = FALSE], activeTab)

\* the Pause button, shown in place of the Start button
pauseTimer ==
  /\ activeTab = "timer"
  /\ timerRunning \/ timerPaused
  /\ Renders([Timer EXCEPT !.timerPaused = TRUE, !.timerRunning = FALSE], activeTab)

\* the Reset button, shown next to the Pause button
resetTimer ==
  /\ activeTab = "timer"
  /\ timerRunning \/ timerPaused
  /\ Renders([Timer EXCEPT !.timerRunning = FALSE, !.timerPaused = FALSE,
                           !.timeLeft = timerSettings[timerMode]], activeTab)

\* one of the three mode buttons of the timer tab
switchTimerMode(mode) ==
  /\ activeTab = "timer"
  /\ Renders([Timer EXCEPT !.timerMode = mode, !.timeLeft = timerSettings[mode],
                           !.timerRunning = FALSE, !.timerPaused = FALSE], activeTab)

\* one of the three tab buttons, the one of the tab shown included
selectTab(tab) == Renders(Timer, tab)

\* the interval of the timer effect fires: it exists while the timer runs
\* and is not paused
TimerInterval ==
  /\ timerRunning /\ ~timerPaused
  /\ (timerMode = "pomodoro" /\ timeLeft <= 1) => pomodoroCount < MaxPomodoros
  /\ Renders(TimerTicked(Timer, lanes = NoLanes), activeTab)

NextTimer ==
  \/ startTimer
  \/ pauseTimer
  \/ resetTimer
  \/ \E mode \in TimerModes : switchTimerMode(mode)
  \/ \E tab \in Tabs : selectTab(tab)
  \/ TimerInterval

SpecTimer == InitTimer /\ [][NextTimer]_vars

\* a running pomodoro countdown is at its last second
LastSecond == timerRunning /\ ~timerPaused /\ timerMode = "pomodoro" /\ timeLeft <= 1

PomodoroCompleted ==
  /\ ~timerRunning'
  /\ pomodoroCount' = pomodoroCount + 1
  /\ timerMode' = (IF pomodoroCount' % 4 = 0 THEN "longBreak" ELSE "shortBreak")
  /\ timeLeft' = timerSettings[timerMode']

Stopped == ~timerRunning' /\ ~timerPaused'

\* C30: when a running pomodoro countdown reaches zero the timer stops, the
\* count of completed pomodoros grows by one, the mode becomes longBreak when
\* the new count is a multiple of 4 and shortBreak otherwise, and timeLeft is
\* that break's full duration; timeLeft is never negative, pauseTimer keeps
\* timeLeft, and resetTimer and switchTimerMode set it to the full duration
\* of the (new) mode with the timer stopped.
C30_PomodoroCompletes ==
  /\ [](timeLeft >= 0)
  /\ [][(TimerInterval /\ LastSecond) => PomodoroCompleted]_vars
  /\ [][pauseTimer => timeLeft' = timeLeft]_vars
  /\ [][resetTimer => (Stopped /\ timeLeft' = timerSettings[timerMode])]_vars
  /\ [][\A mode \in TimerModes :
          switchTimerMode(mode) =>
            (Stopped /\ timerMode' = mode /\ timeLeft' = timerSettings[mode])]_vars

(***************************************************************************)
(* The memory game of MemoryGame.jsx                                       *)
(***************************************************************************)
Game ==
  [gameState |-> gameState, decks |-> decks, cards |-> cards,
   flippedIndices |-> flippedIndices, matchedPairs |-> matchedPairs, moves |-> moves,
   score |-> score, time |-> gameTime, timerActive |-> timerActive, timeouts |-> timeouts]

GameBecomes(g) ==
  /\ gameState' = g.gameState
  /\ decks' = Collected(g).decks
  /\ cards' = g.cards
  /\ flippedIndices' = g.flippedIndices
  /\ matchedPairs' = g.matchedPairs
  /\ moves' = g.moves
  /\ score' = g.score
  /\ gameTime' = g.time
  /\ timerActive' = g.timerActive
  /\ timeouts' = g.timeouts
  /\ UNCHANGED besideMemory

InitMemory == InitNorm /\ buffer

\* Start Game (menu), New Game (playing) and Play Again (completed)
startGame ==
  /\ Len(decks) < MaxGames
  /\ \E gameCards \in shuffleArray(NewCards) : GameBecomes(startGameWith(Game, gameCards))
  /\ clicked' = "none"

\* a click on the card at a position; the grid is shown while playing
handleCardClick(index) ==
  /\ (~ClickIgnored(Game, index) /\ Len(flippedIndices) = 1) => moves < MaxMoves
  /\ GameBecomes(handleCardClicked(Game, index))
  /\ clicked' = IF ClickIgnored(Game, index) THEN "ignored" ELSE "flipped"

\* the oldest pending timer of checkMatch fires
FlipBack ==
  /\ timeouts # <<>>
  /\ GameBecomes(FlippedBack(Game))
  /\ clicked' = clicked

\* the interval of the game clock
TickGame ==
  /\ timerActive
  /\ gameTime < MaxGameTime
  /\ GameBecomes([Game EXCEPT !.time = @ + 1])
  /\ clicked' = clicked

\* the Main Menu button of the completed game
MainMenu ==
  /\ gameState = "completed"
  /\ GameBecomes([Game EXCEPT !.gameState = "menu"])
  /\ clicked' = clicked

NextMemory ==
  \/ startGame
  \/ \E index \in 1..(2 * Pairs) : handleCardClick(index)
  \/ FlipBack
  \/ TickGame
  \/ MainMenu

SpecMemory == InitMemory /\ [][NextMemory]_vars

FaceUp == {i \in DOMAIN CardsOf(Game) : CardsOf(Game)[i].flipped /\ ~CardsOf(Game)[i].matched}

AllFaceDown ==
  \A i \in DOMAIN CardsOf(Game) : ~CardsOf(Game)[i].flipped /\ ~CardsOf(Game)[i].matched

\* C28: after startGame, and until the next card click, the deck in play is
\* the newly dealt one, every card face down and unmatched, and there are no
\* flipped indices, whatever timer of the previous game is still pending.
C28_NewDeckInPlay ==
  (gameState = "playing" /\ clicked = "none") =>
    /\ cards = Len(decks)
    /\ Len(CardsOf(Game)) = 2 * Pairs
    /\ AllFaceDown
    /\ flippedIndices = <<>>

\* a step of handleCardClick on some card
Clicks(index) == handleCardClick(index)

\* the clicks the game is to ignore: on a card face up or matched, with two
\* unmatched cards face up, or outside the 'playing' state
ToBeIgnored(index) ==
  \/ gameState # "playing"
  \/ CardsOf(Game)[index].flipped
  \/ CardsOf(Game)[index].matched
  \/ Cardinality(FaceUp) = 2

IgnoredClickChangesNothing ==
  \A index \in 1..(2 * Pairs) :
    (Clicks(index) /\ ToBeIgnored(index)) =>
      UNCHANGED <<decks, cards, flippedIndices, moves, score>>

\* the move counter counts the second flip of each pair, and nothing else
\* but a new game changes it
MovesCountPairs ==
  /\ \A index \in 1..(2 * Pairs) :
       (Clicks(index) /\ ~ToBeIgnored(index)) =>
         moves' = (IF Cardinality(FaceUp) = 1 THEN moves + 1 ELSE moves)
  /\ (moves' # moves) => (startGame \/ \E index \in 1..(2 * Pairs) : Clicks(index))

\* C29: at most two unmatched cards are face up in any reachable state; a
\* click on a card that is face up or matched, or made while two unmatched
\* cards are face up, or made outside the 'playing' state, changes neither
\* the cards, the flipped indices, the move counter nor the score; the move
\* counter grows by exactly one per completed pair of flips.
C29_TwoCardsAtMost ==
  /\ [](Cardinality(FaceUp) <= 2)
  /\ [][IgnoredClickChangesNothing]_vars
  /\ [][MovesCountPairs]_vars

\* a pair has been turned and counted, and a third click was ignored
C29_Witness ==
  /\ gameState = "playing"
  /\ Cardinality(FaceUp) = 2
  /\ moves = 2
  /\ clicked = "ignored"

(***************************************************************************)
(* The chess game of SignUp.jsx (ChessGame)                                *)
(***************************************************************************)
Chess ==
  [chess |-> chess, playerColor |-> playerColor, gameHistory |-> gameHistory,
   capturedPieces |-> capturedPieces, thinking |-> thinking, gameMode |-> gameMode,
   lastMove |-> lastMove, historyStack |-> historyStack, redoStack |-> redoStack,
   engine |-> engine, delayed |-> delayed, timers |-> timers,
   thinkingTimeoutRef |-> thinkingTimeoutRef, requested |-> requested,
   started |-> started, setGame |-> FALSE]

\* the component renders what the handler has set and runs its effects
ChessBecomes(set, operation) ==
  LET c == Effects(set)
  IN  /\ c.requested <= MaxRequests
      /\ chess' = c.chess
      /\ playerColor' = c.playerColor
      /\ gameHistory' = c.gameHistory
      /\ capturedPieces' = c.capturedPieces
      /\ thinking' = c.thinking
      /\ gameMode' = c.gameMode
      /\ lastMove' = c.lastMove
      /\ historyStack' = c.historyStack
      /\ redoStack' = c.redoStack
      /\ engine' = c.engine
      /\ delayed' = c.delayed
      /\ timers' = c.timers
      /\ thinkingTimeoutRef' = c.thinkingTimeoutRef
      /\ requested' = c.requested
      /\ started' = c.started
      /\ chessOp' = operation
      /\ prior' = ViewOf(Chess)
      /\ UNCHANGED besideChess

InitChess == InitNorm /\ buffer

\* the colour buttons of the menu
startNewGame(color) ==
  /\ gameMode = "menu"
  /\ started < MaxChessGames
  /\ ChessBecomes(startNewGameAs(Chess, color), "new game")

\* the New Game button of the game area
resetGame ==
  /\ gameMode # "menu"
  /\ started < MaxChessGames
  /\ ChessBecomes(resetGameOf(Chess), "new game")

\* the load button of a saved game
loadGame(savedGame) ==
  /\ started < MaxChessGames
  /\ ChessBecomes(loadGameOf(Chess, savedGame), "new game")

\* the Menu button of the game area
OpenMenu ==
  /\ gameMode # "menu"
  /\ ChessBecomes([Chess EXCEPT !.gameMode = "menu"], "menu")

\* a click on a square of the board with a square selected
handleSquareClick(from, to) ==
  /\ gameMode # "menu"
  /\ ChessBecomes(handleSquareClicked(Chess, from, to),
                  IF handleSquareClicked(Chess, from, to) = Chess THEN "refused" ELSE "move")

\* the Undo button and Ctrl+Z
handleUndo ==
  ChessBecomes(handleUndone(Chess), IF UndoRefused(Chess) THEN "refused" ELSE "undo")

\* the Redo button and Ctrl+Y
handleRedo ==
  ChessBecomes(handleRedone(Chess), IF RedoRefused(Chess) THEN "refused" ELSE "redo")

\* the engine answers the oldest request
EngineAnswers ==
  /\ engine # <<>>
  /\ \E bestMove \in (IF BestMoves(Head(engine).fen) = {} THEN {NoBestMove}
                      ELSE BestMoves(Head(engine).fen)) :
       ChessBecomes(Answered(Chess, bestMove), "answer")

\* the call of makeAIMove that onmessage scheduled
makeAIMove ==
  /\ delayed # <<>>
  /\ LET c == [Chess EXCEPT !.delayed = Tail(@)]
         moved == makeAIMoved(c, Head(delayed).bestMove)
     IN  ChessBecomes(moved, IF moved.setGame THEN "move" ELSE "refused")

\* the oldest timer of makeAIMoveRequest fires
ThinkingTimeout ==
  /\ timers # <<>>
  /\ LET legal == LegalMoves(chess[Head(timers).game])
     IN  \E randomMove \in (IF legal = {} THEN {WhitePawn} ELSE legal) :
           ChessBecomes(TimedOut(Chess, randomMove),
                        IF legal = {} THEN "refused" ELSE "move")

NextChess ==
  \/ \E color \in {"w", "b"} : startNewGame(color)
  \/ resetGame
  \/ loadGame(SavedGame)
  \/ OpenMenu
  \/ \E move \in ChessMoves : handleSquareClick(move.from, move.to)
  \/ handleUndo
  \/ handleRedo
  \/ EngineAnswers
  \/ makeAIMove
  \/ ThinkingTimeout

SpecChess == InitChess /\ [][NextChess]_vars

(***************************************************************************)
(* Undo, redo and the engine's moves                                       *)
(***************************************************************************)
PlayerMoves == \E move \in ChessMoves : handleSquareClick(move.from, move.to)

\* a step that plays a move: the player's, the engine's or the fallback's
MoveMade == (PlayerMoves \/ makeAIMove \/ ThinkingTimeout) /\ chessOp' = "move"

GameStarted ==
  \/ \E color \in {"w", "b"} : startNewGame(color)
  \/ resetGame
  \/ loadGame(SavedGame)

Undone == handleUndo /\ ~UndoRefused(Chess)

Redone == handleRedo /\ ~RedoRefused(Chess)

StacksOf(c) == <<c.historyStack, c.redoStack>>

\* C23: handleUndo right after a move, the player's or the engine's, restores
\* the position, the move list, the captured pieces and the last-move marker
\* to what they were before that move.
C23_UndoRestores == [][(Undone /\ chessOp = "move") => ViewOf(Chess)' = prior]_vars

OneEntryMoved ==
  /\ Undone =>
       /\ Len(historyStack') = Len(historyStack) - 1
       /\ Len(redoStack') = Len(redoStack) + 1
  /\ Redone =>
       /\ Len(redoStack') = Len(redoStack) - 1
       /\ Len(historyStack') = Len(historyStack) + 1

NothingOnEmpty ==
  /\ (handleUndo /\ historyStack = <<>>) =>
       (ViewOf(Chess)' = ViewOf(Chess) /\ StacksOf(Chess)' = StacksOf(Chess))
  /\ (handleRedo /\ redoStack = <<>>) =>
       (ViewOf(Chess)' = ViewOf(Chess) /\ StacksOf(Chess)' = StacksOf(Chess))

\* C24 as stated: handleRedo right after handleUndo gives back the position,
\* the move list, the captured pieces and the last move; each of the two moves
\* one entry from one stack to the other; on an empty stack they change nothing.
C24_UndoRedoIdentity ==
  /\ [][(handleRedo /\ chessOp = "undo") => ViewOf(Chess)' = prior]_vars
  /\ [][OneEntryMoved]_vars
  /\ [][NothingOnEmpty]_vars

\* C24, amended: the same for a handleRedo that the engine's thinking does not
\* refuse; a handleRedo or handleUndo made while the engine is thinking changes
\* nothing, like those on an empty stack.
C24_UndoRedoIdentityUnlessThinking ==
  /\ [][(handleRedo /\ chessOp = "undo" /\ ~thinking) => ViewOf(Chess)' = prior]_vars
  /\ [][((handleRedo \/ handleUndo) /\ thinking) =>
          (ViewOf(Chess)' = ViewOf(Chess) /\ StacksOf(Chess)' = StacksOf(Chess))]_vars
  /\ [][OneEntryMoved]_vars
  /\ [][NothingOnEmpty]_vars

\* an undo has been redone: the stacks hold two entries between them
C24_Witness ==
  /\ chessOp = "redo"
  /\ Len(historyStack) = 2
  /\ redoStack = <<>>
  /\ ViewOf(Chess)[2] # <<>>

\* C25: every move empties the redo stack; startNewGame, resetGame and
\* loadGame empty both stacks; the redo stack grows by handleUndo alone.
C25_RedoStackEmptied ==
  /\ [][MoveMade => redoStack' = <<>>]_vars
  /\ [][GameStarted => (historyStack' = <<>> /\ redoStack' = <<>>)]_vars
  /\ [][Len(redoStack') > Len(redoStack) => Undone]_vars

\* a move has been made after an undo
C25_Witness ==
  /\ chessOp = "move"
  /\ redoStack = <<>>
  /\ Len(gameHistory) < Len(historyStack)

\* the engine's answer or the timer is that of the game and the position in play
OfThisGame(request) == request.started = started /\ request.fen = chess[1]

ChessUntouched ==
  /\ chess'[1] = chess[1]
  /\ UNCHANGED <<gameHistory, historyStack, redoStack>>

\* C26: an engine move is played only on the position it was requested for:
\* after a new game, a reset or a load, neither the late answer of the engine
\* nor the fallback of the timer changes the position, the move list or the
\* stacks.
C26_EngineMoveOnItsPosition ==
  /\ [][makeAIMove => (OfThisGame(Head(delayed)) \/ ChessUntouched)]_vars
  /\ [][ThinkingTimeout => (OfThisGame(Head(timers)) \/ ChessUntouched)]_vars

====
